---- MODULE Spec2Model ----
(***************************************************************************)
(* Package lifecycle engine of pearl (pearllib/package.py, utils.py).      *)
(*                                                                         *)
(* A Python str is a sequence of one-character strings, a pathlib.Path a   *)
(* sequence of components (each a str), a dict a sequence of key/value     *)
(* records in insertion order.  The filesystem is a function from the      *)
(* directories that exist to the set of file names each one holds.         *)
(***************************************************************************)
EXTENDS Integers, Sequences, FiniteSets, TLC

VARIABLES
    fs,      \* the filesystem: existing directory path -> set of file names
    stack,   \* per thread, the call stack of engine operations in progress
    log,     \* per thread, what its top-level operation did so far, in order
    fs0,     \* per thread, the filesystem when its top-level operation began
    last,    \* per thread, the outcome of its last finished top-level operation
    previous, \* per thread, what its caller remembers of the call made before
    sh,      \* the bash process of the executor when a script is followed line by line
    rc       \* the user's shell and editor startup files: file name -> content

vars == <<fs, stack, log, fs0, last, previous, sh, rc>>

\* Number of unrecognised answers a user gives to one prompt before a valid one.
MaxRetries == 1

Threads == {"main", "other"}

-----------------------------------------------------------------------------
(* Python values *)

\* str.split(sep) for a one-character separator
RECURSIVE split(_, _)
split(s, sep) ==
    IF \A i \in 1..Len(s) : s[i] # sep
    THEN <<s>>
    ELSE LET i == CHOOSE k \in 1..Len(s) :
                      s[k] = sep /\ \A j \in 1..(k - 1) : s[j] # sep
         IN  <<SubSeq(s, 1, i - 1)>> \o split(SubSeq(s, i + 1, Len(s)), sep)

\* `c in s` for a one-character c
str_contains(s, c) == \E i \in 1..Len(s) : s[i] = c

\* `k in d`, `d[k]` for a dict
dict_contains(d, k) == \E i \in 1..Len(d) : d[i].key = k
dict_get(d, k) == d[CHOOSE i \in 1..Len(d) : d[i].key = k].value

\* pathlib: Path(str), path / component
Path(s) == <<s>>
Join(path, comp) == Append(path, comp)
IsPrefix(p, q) == Len(p) <= Len(q) /\ SubSeq(q, 1, Len(p)) = p

\* exceptions: kind, and for HookFunctionError the hook and the __cause__
Exc(kind, hook, cause) == [kind |-> kind, hook |-> hook, cause |-> cause]
NoExc == Exc("None", "", "None")
Error(kind) == Exc(kind, "", "None")

-----------------------------------------------------------------------------
(* PearlOptions, Package, PearlEnvironment (pearllib/pearlenv.py) *)

PearlOptions(no_confirm, verbose) == [no_confirm |-> no_confirm, verbose |-> verbose]
DefaultOptions == PearlOptions(FALSE, FALSE)
OptionsSet == {PearlOptions(n, v) : n \in BOOLEAN, v \in BOOLEAN}

Home == Path(<<"home">>)

Package(repo_name, name, url) == [repo_name |-> repo_name, name |-> name, url |-> url]
NoPackage == Package(<<>>, <<>>, <<>>)

PkgDir(p) == Join(Join(Join(Home, <<"packages">>), p.repo_name), p.name)
PkgVarDir(p) == Join(Join(Join(Home, <<"var">>), p.repo_name), p.name)
is_local(p) == Len(p.url) > 0 /\ p.url[1] = "/"

LocalUrl == <<"/", "s", "r", "c">>
GitUrl == <<"g", "i", "t">>
OtherGitUrl == <<"g", "i", "t", "2">>

PkgRA == Package(<<"r">>, <<"a">>, LocalUrl)
PkgSA == Package(<<"s">>, <<"a">>, GitUrl)
Packages == {PkgRA, PkgSA}

\* pearl_env.packages: repo name -> (package short name -> Package); repository
\* q has no package, r and s each have a package named a
Catalog ==
    << [key |-> <<"q">>, value |-> << >>],
       [key |-> <<"r">>, value |-> << [key |-> <<"a">>, value |-> PkgRA] >>],
       [key |-> <<"s">>, value |-> << [key |-> <<"a">>, value |-> PkgSA] >>] >>

-----------------------------------------------------------------------------
(* Filesystem primitives *)

is_dir(f, path) == path \in DOMAIN f

\* nothing exists
NoFilesystem == << >>

Prefixes(path) == {SubSeq(path, 1, k) : k \in 1..Len(path)}

\* Path.mkdir(parents=True, exist_ok=True)
mkdir(f, path) ==
    [q \in DOMAIN f \cup Prefixes(path) |-> IF q \in DOMAIN f THEN f[q] ELSE {}]

\* shutil.rmtree(path), path existing
rmtree(f, path) == [q \in {x \in DOMAIN f : ~IsPrefix(path, x)} |-> f[q]]

\* shutil.copytree(src, dst), src a directory and dst not existing
copytree(f, src, dst) ==
    LET under == {q \in DOMAIN f : IsPrefix(src, q)}
        Rebase(q) == dst \o SubSeq(q, Len(src) + 1, Len(q))
        made == {Rebase(q) : q \in under}
    IN  [x \in DOMAIN f \cup made |->
            IF x \in made
            THEN f[CHOOSE q \in under : Rebase(q) = x]
            ELSE f[x]]

is_installed(f, p) == is_dir(f, PkgDir(p))

-----------------------------------------------------------------------------
(* Identifier resolution (package.py) *)

Found(p) == [exc |-> NoExc, package |-> p]
NotFound(kind) == [exc |-> Error(kind), package |-> NoPackage]

\* lookup_package_full_name falling back to the other repositories
lookup_package_full_name_fallback(packages, package_full_name) ==
    LET parts == split(package_full_name, "/")
    IN  IF Len(parts) # 2
        THEN NotFound("ValueError")
        ELSE LET repo_name == parts[1]
                 short_package_name == parts[2]
             IN  IF \/ ~dict_contains(packages, repo_name)
                    \/ ~dict_contains(dict_get(packages, repo_name), short_package_name)
                 THEN LET hits == {i \in 1..Len(packages) :
                                      dict_contains(packages[i].value, short_package_name)}
                      IN  IF hits = {}
                          THEN NotFound("PackageNotInRepoError")
                          ELSE Found(dict_get(packages[CHOOSE i \in hits : TRUE].value,
                                              short_package_name))
                 ELSE Found(dict_get(dict_get(packages, repo_name), short_package_name))

lookup_package_full_name(packages, package_full_name) ==
    LET parts == split(package_full_name, "/")
    IN  IF Len(parts) # 2
        THEN NotFound("ValueError")
        ELSE LET repo_name == parts[1]
                 short_package_name == parts[2]
             IN  IF ~dict_contains(packages, repo_name)
                 THEN NotFound("RepoDoesNotExistError")
                 ELSE IF ~dict_contains(dict_get(packages, repo_name), short_package_name)
                 THEN NotFound("PackageNotInRepoError")
                 ELSE Found(dict_get(dict_get(packages, repo_name), short_package_name))

\* lookup_package returning the hit of the last repository instead of the first
lookup_package_last_hit(packages, package_name) ==
    IF str_contains(package_name, "/")
    THEN lookup_package_full_name(packages, package_name)
    ELSE LET hits == {i \in 1..Len(packages) :
                         dict_contains(packages[i].value, package_name)}
         IN  IF hits = {}
             THEN NotFound("PackageNotInRepoError")
             ELSE LET final == CHOOSE i \in hits : \A j \in hits : i >= j
                  IN  Found(dict_get(packages[final].value, package_name))

lookup_package(packages, package_name) ==
    IF str_contains(package_name, "/")
    THEN lookup_package_full_name(packages, package_name)
    ELSE LET hits == {i \in 1..Len(packages) :
                         dict_contains(packages[i].value, package_name)}
         IN  IF hits = {}
             THEN NotFound("PackageNotInRepoError")
             ELSE LET first == CHOOSE i \in hits : \A j \in hits : i <= j
                  IN  Found(dict_get(packages[first].value, package_name))

-----------------------------------------------------------------------------
(* Script Executor and prompt (utils.py) *)

\* what subprocess.run returns; a str is a different Python type
CompletedProcess(stdout) == [type |-> "CompletedProcess", val |-> stdout]
PyStr(s) == [type |-> "str", val |-> s]
PyBool(b) == [type |-> "bool", val |-> b]
py_eq(x, y) == x.type = y.type /\ x.val = y.val
truthy(x) == IF x.type = "bool" THEN x.val ELSE x.val # <<>>

\* run_pearl_bash: the value handed back to the caller of a successful run
run_pearl_bash(stdout) == CompletedProcess(stdout)

\* `input=None` whatever the options
InputFor_none(options) == "None"

\* `'' if options.no_confirm else None`
InputFor(options) == IF options.no_confirm THEN "" ELSE "None"
\* `"false" if options.verbose else "true"`
QuietFor(options) == IF options.verbose THEN "false" ELSE "true"

\* check_and_copy removing dst_dir before it looks at src_dir
check_and_copy_remove_first(f, src_dir, dst_dir) ==
    IF ~is_dir(f, dst_dir)
    THEN [exc |-> Error("FileNotFoundError"), fs |-> f]
    ELSE IF ~is_dir(f, src_dir)
    THEN [exc |-> Error("NotADirectoryError"), fs |-> rmtree(f, dst_dir)]
    ELSE [exc |-> NoExc, fs |-> copytree(rmtree(f, dst_dir), src_dir, dst_dir)]

\* check_and_copy(src_dir, dst_dir)
check_and_copy(f, src_dir, dst_dir) ==
    IF ~is_dir(f, src_dir)
    THEN [exc |-> Error("NotADirectoryError"), fs |-> f]
    ELSE IF ~is_dir(f, dst_dir)
    THEN [exc |-> Error("FileNotFoundError"), fs |-> f]
    ELSE [exc |-> NoExc, fs |-> copytree(rmtree(f, dst_dir), src_dir, dst_dir)]

\* what the user may type at a prompt, and str.upper() of it
Answers == {<<>>, <<"y">>, <<"n">>, <<"x">>}
upper(a) == [i \in 1..Len(a) |->
                CASE a[i] = "y" -> "Y" [] a[i] = "n" -> "N" [] a[i] = "x" -> "X"
                  [] OTHER -> a[i]]

\* ask(prompt, yes_as_default_answer, no_confirm): the value returned without
\* reading stdin, when there is one
ask_no_confirm(yes_as_default_answer, no_confirm) ==
    [done |-> truthy(no_confirm), value |-> yes_as_default_answer]

\* one turn of ask's input loop on the line typed
ask_input(yes_as_default_answer, typed) ==
    LET default_answer == IF truthy(yes_as_default_answer) THEN <<"Y">> ELSE <<"N">>
        up == upper(typed)
        answer == IF up = <<>> THEN default_answer ELSE up
    IN  [done |-> answer \in {<<"Y">>, <<"N">>}, value |-> PyBool(answer = <<"Y">>)]

-----------------------------------------------------------------------------
(* Hook Invocation Protocol (package.py _run) *)

HookNames == <<"post_install", "pre_update", "post_update", "pre_remove">>

\* _run formatting the install directory into PEARL_PKGVARDIR as well
hook_script_one_directory(script, package, cd_home) ==
    << [line |-> "assign", var |-> "PEARL_PKGDIR", path |-> PkgDir(package)],
       [line |-> "assign", var |-> "PEARL_PKGVARDIR", path |-> PkgDir(package)],
       [line |-> "assign", var |-> "PEARL_PKGNAME", str |-> package.name],
       [line |-> "assign", var |-> "PEARL_PKGREPONAME", str |-> package.repo_name] >>
    \o [i \in 1..4 |-> [line |-> "define_noop",
                        fn |-> <<"post_install", "pre_update", "post_update", "pre_remove">>[i]]]
    \o << [line |-> "assign_under", var |-> "INSTALL_SH", base |-> "PEARL_PKGDIR",
           rel |-> << <<"pearl-config">>, <<"install.sh">> >>],
          [line |-> "source_if_file", var |-> "INSTALL_SH"],
          [line |-> "cd", var |-> IF cd_home THEN "PEARL_HOME" ELSE "PEARL_PKGDIR"],
          [line |-> "call", fn |-> script] >>

\* _run with the default hook functions defined after install.sh is sourced
hook_script_defaults_last(script, package, cd_home) ==
    << [line |-> "assign", var |-> "PEARL_PKGDIR", path |-> PkgDir(package)],
       [line |-> "assign", var |-> "PEARL_PKGVARDIR", path |-> PkgVarDir(package)],
       [line |-> "assign", var |-> "PEARL_PKGNAME", str |-> package.name],
       [line |-> "assign", var |-> "PEARL_PKGREPONAME", str |-> package.repo_name],
       [line |-> "assign_under", var |-> "INSTALL_SH", base |-> "PEARL_PKGDIR",
        rel |-> << <<"pearl-config">>, <<"install.sh">> >>],
       [line |-> "source_if_file", var |-> "INSTALL_SH"] >>
    \o [i \in 1..4 |-> [line |-> "define_noop",
                        fn |-> <<"post_install", "pre_update", "post_update", "pre_remove">>[i]]]
    \o << [line |-> "cd", var |-> IF cd_home THEN "PEARL_HOME" ELSE "PEARL_PKGDIR"],
          [line |-> "call", fn |-> script] >>

\* the script _run composes, line by line
hook_script(script, package, cd_home) ==
    << [line |-> "assign", var |-> "PEARL_PKGDIR", path |-> PkgDir(package)],
       [line |-> "assign", var |-> "PEARL_PKGVARDIR", path |-> PkgVarDir(package)],
       [line |-> "assign", var |-> "PEARL_PKGNAME", str |-> package.name],
       [line |-> "assign", var |-> "PEARL_PKGREPONAME", str |-> package.repo_name] >>
    \o [i \in 1..Len(HookNames) |-> [line |-> "define_noop", fn |-> HookNames[i]]]
    \o << [line |-> "assign_under", var |-> "INSTALL_SH", base |-> "PEARL_PKGDIR",
           rel |-> << <<"pearl-config">>, <<"install.sh">> >>],
          [line |-> "source_if_file", var |-> "INSTALL_SH"],
          [line |-> "cd", var |-> IF cd_home THEN "PEARL_HOME" ELSE "PEARL_PKGDIR"],
          [line |-> "call", fn |-> script] >>

\* the directory the hook script changes to; the script fails (set -e) if it is missing
hook_cwd(package, cd_home) == IF cd_home THEN Home ELSE PkgDir(package)

\* `raise HookFunctionError(...)` without `from exc`
hook_error_without_cause(hook, exc) == Exc("HookFunctionError", hook, "None")

\* `raise HookFunctionError(...) from exc`
hook_error(hook, exc) == Exc("HookFunctionError", hook, exc.kind)

-----------------------------------------------------------------------------
(* Events of the log *)

\* an engine operation is called: by a caller outside (depth 0) or by the
\* operation running at that depth of the stack
EvCall(t, op, package_name, options, depth) ==
    [ev |-> "call", t |-> t, op |-> op, package_name |-> package_name,
     options |-> options, depth |-> depth]
\* operation `by` hands a script to the Script Executor
EvExec(t, by, what, script, input, capture_stdout, ok) ==
    [ev |-> "exec", t |-> t, by |-> by, what |-> what, script |-> script,
     input |-> input, capture_stdout |-> capture_stdout, ok |-> ok]
\* operation `by` changes the filesystem itself
EvFs(t, by, what, path, ok) ==
    [ev |-> "fs", t |-> t, by |-> by, what |-> what, path |-> path, ok |-> ok]
EvAsk(t, yes_as_default_answer, no_confirm) ==
    [ev |-> "ask", t |-> t, yes_as_default_answer |-> yes_as_default_answer,
     no_confirm |-> no_confirm]
EvInput(t, typed) == [ev |-> "input", t |-> t, typed |-> typed]

-----------------------------------------------------------------------------
(* Call stack *)

\* f with the keys of g it lacks, as a Python dict update leaves them
Merge(f, g) ==
    [k \in DOMAIN f \cup DOMAIN g |-> IF k \in DOMAIN f THEN f[k] ELSE g[k]]

Frame(op, package_name, options, pc, package) ==
    [op |-> op, package_name |-> package_name, options |-> options, pc |-> pc,
     package |-> package, reads |-> 0]

Idle(t) == stack[t] = <<>>
Top(t) == stack[t][Len(stack[t])]
At(t, op, pc) == ~Idle(t) /\ Top(t).op = op /\ Top(t).pc = pc

\* the stack with the running operation moved to its next statement
Goto(s, pc) == [s EXCEPT ![Len(s)].pc = pc]

\* an operation that has run its last statement returns to its caller
RECURSIVE Unwind(_)
Unwind(s) ==
    IF s # <<>> /\ s[Len(s)].pc = "return" THEN Unwind(SubSeq(s, 1, Len(s) - 1)) ELSE s

Outcome(op, package_name, options, exc) ==
    [op |-> op, package_name |-> package_name, options |-> options, exc |-> exc]
NoOutcome == Outcome("none", <<>>, DefaultOptions, NoExc)

\* the call before: the operation, the package it resolved, whether that package's
\* install directory existed when the call began, and whether the call failed
Previous(op, package, installed, failed) ==
    [op |-> op, package |-> package, installed |-> installed, failed |-> failed]
NoPrevious == Previous("none", NoPackage, FALSE, FALSE)

\* no script is being followed line by line
NoShell == [status |-> "none"]

\* none of the startup files exists
NoFiles == << >>

\* no operation in progress and none finished that a caller still looks at
Quiescent(t) == Idle(t) /\ last[t] = NoOutcome

\* One statement of thread t's running operation: the filesystem becomes f, the
\* stack s, events are logged; an exception nobody catches ends the whole call.
StepFiles(t, s, exc, f, r, events) ==
    LET s2 == IF exc = NoExc THEN Unwind(s) ELSE <<>>
        base == stack[t][1]
    IN  /\ fs' = f
        /\ rc' = r
        /\ log' = [log EXCEPT ![t] = @ \o events]
        /\ stack' = [stack EXCEPT ![t] = s2]
        /\ last' = IF s2 = <<>>
                   THEN [last EXCEPT ![t] =
                            Outcome(base.op, base.package_name, base.options, exc)]
                   ELSE last
        /\ UNCHANGED <<fs0, previous, sh>>

\* a statement of the package operations: none of them touches the startup files
Step(t, s, exc, f, events) == StepFiles(t, s, exc, f, rc, events)

\* A caller outside the engine invokes operation op: e is what its first
\* statements (resolution and the installed-state check) give.  The record of
\* the call before is kept only through a call that repeats it (same operation,
\* same package) and ends at those first statements.
Begin(t, op, package_name, options, e) ==
    LET s2 == IF e.exc = NoExc THEN Unwind(e.stack) ELSE <<>>
        repeats == /\ s2 = <<>>
                   /\ previous[t].op = op
                   /\ previous[t].package # NoPackage
                   /\ previous[t].package = lookup_package(Catalog, package_name).package
    IN  /\ Quiescent(t)
        /\ fs' = fs
        /\ fs0' = [fs0 EXCEPT ![t] = fs]
        /\ log' = [log EXCEPT ![t] = <<EvCall(t, op, package_name, options, 0)>>]
        /\ stack' = [stack EXCEPT ![t] = s2]
        /\ last' = [last EXCEPT ![t] =
                       IF s2 = <<>> THEN Outcome(op, package_name, options, e.exc)
                       ELSE NoOutcome]
        /\ previous' = [previous EXCEPT ![t] = IF repeats THEN @ ELSE NoPrevious]
        /\ UNCHANGED <<sh, rc>>

Raised(s, kind) == [exc |-> Error(kind), stack |-> s]
Entered(s, frame) == [exc |-> NoExc, stack |-> Append(s, frame)]

-----------------------------------------------------------------------------
(* install_package *)

\* install_enter without the `if package.is_installed(): raise`
install_enter_unchecked(f, s, package_name, options) ==
    LET r == lookup_package(Catalog, package_name)
    IN  IF r.exc # NoExc THEN [exc |-> r.exc, stack |-> s]
        ELSE Entered(s, Frame("install", package_name, options, "mkdir", r.package))

\* install_enter taking a package another caller is installing for installed
install_enter_locked(f, s, package_name, options) ==
    LET r == lookup_package(Catalog, package_name)
    IN  IF r.exc # NoExc THEN [exc |-> r.exc, stack |-> s]
        ELSE IF \/ is_installed(f, r.package)
                \/ \E u \in Threads : stack[u] # <<>> /\ stack[u][1].package = r.package
        THEN Raised(s, "PackageAlreadyInstalledError")
        ELSE Entered(s, Frame("install", package_name, options, "mkdir", r.package))

\* package.py 82-92: resolution and precondition
install_enter(f, s, package_name, options) ==
    LET r == lookup_package(Catalog, package_name)
    IN  IF r.exc # NoExc THEN [exc |-> r.exc, stack |-> s]
        ELSE IF is_installed(f, r.package)
        THEN Raised(s, "PackageAlreadyInstalledError")
        ELSE Entered(s, Frame("install", package_name, options, "mkdir", r.package))

install_package(t, package_name, options) ==
    Begin(t, "install", package_name, options,
          install_enter(fs, <<>>, package_name, options))

\* install_mkdir creating the data directory as well
install_mkdir_with_vardir(t) ==
    /\ At(t, "install", "mkdir")
    /\ LET dir == PkgDir(Top(t).package)
           vardir == PkgVarDir(Top(t).package)
       IN  Step(t, Goto(stack[t], "stage"), NoExc, mkdir(mkdir(fs, dir), vardir),
                <<EvFs(t, Top(t).op, "mkdir", dir, TRUE)>>)

\* package.py 93
install_mkdir(t) ==
    /\ At(t, "install", "mkdir")
    /\ LET dir == PkgDir(Top(t).package)
       IN  Step(t, Goto(stack[t], "stage"), NoExc, mkdir(fs, dir),
                <<EvFs(t, Top(t).op, "mkdir", dir, TRUE)>>)

\* what a successful clone or pull leaves in the clone's directory
UpstreamFiles == {"new"}
git_checkout(f, dir) == [mkdir(f, dir) EXCEPT ![dir] = UpstreamFiles]

CloneScript(package, quiet) ==
    [fn |-> "install_git_repo", url |-> package.url, dir |-> PkgDir(package),
     quiet |-> quiet]
PullScript(package, quiet) ==
    [fn |-> "update_git_repo", dir |-> PkgDir(package), quiet |-> quiet]
QueryScript == [fn |-> "git config remote.origin.url"]

\* package.py 94-103 and 147-156: local copy, or a git script run by the executor
stage(t, what, script, next) ==
    LET top == Top(t)
        package == top.package
    IN  IF is_local(package)
        THEN LET r == check_and_copy(fs, Path(package.url), PkgDir(package))
             IN  Step(t, Goto(stack[t], next), r.exc, r.fs,
                      <<EvFs(t, top.op, "check_and_copy", PkgDir(package), r.exc = NoExc)>>)
        ELSE \E ok \in BOOLEAN :
                 /\ ok => is_dir(fs, PkgDir(package))
                 /\ Step(t, Goto(stack[t], next),
                         IF ok THEN NoExc ELSE Error("CalledProcessError"),
                         IF ok THEN git_checkout(fs, PkgDir(package)) ELSE fs,
                         <<EvExec(t, top.op, what, script, InputFor(top.options), FALSE, ok)>>)

\* install_stage returning once the content is staged
install_stage_then_return(t) ==
    /\ At(t, "install", "stage")
    /\ stage(t, "clone", CloneScript(Top(t).package, QuietFor(Top(t).options)), "return")

install_stage(t) ==
    /\ At(t, "install", "stage")
    /\ stage(t, "clone", CloneScript(Top(t).package, QuietFor(Top(t).options)), "vardir")

\* package.py 105
install_vardir(t) ==
    /\ At(t, "install", "vardir")
    /\ LET dir == PkgVarDir(Top(t).package)
       IN  Step(t, Goto(stack[t], "hook"), NoExc, mkdir(fs, dir),
                <<EvFs(t, Top(t).op, "mkdir", dir, TRUE)>>)

\* run_hook with `except Exception: pass`
run_hook_unguarded(t, hook, next) ==
    LET top == Top(t)
    IN  \E ok \in BOOLEAN :
            /\ ok => is_dir(fs, hook_cwd(top.package, FALSE))
            /\ Step(t, Goto(stack[t], next), NoExc, fs,
                    <<EvExec(t, top.op, "hook", hook_script(hook, top.package, FALSE),
                             InputFor(top.options), FALSE, ok)>>)

\* `try: _run(hook, ...) except Exception as exc: raise HookFunctionError from exc`
run_hook(t, hook, next) ==
    LET top == Top(t)
    IN  \E ok \in BOOLEAN :
            /\ ok => is_dir(fs, hook_cwd(top.package, FALSE))
            /\ Step(t, Goto(stack[t], next),
                    IF ok THEN NoExc ELSE hook_error(hook, Error("CalledProcessError")),
                    fs,
                    <<EvExec(t, top.op, "hook", hook_script(hook, top.package, FALSE),
                             InputFor(top.options), FALSE, ok)>>)

\* install_hook deleting the install directory when the hook fails
install_hook_rollback(t) ==
    /\ At(t, "install", "hook")
    /\ LET top == Top(t)
       IN  \E ok \in BOOLEAN :
               /\ ok => is_dir(fs, hook_cwd(top.package, FALSE))
               /\ Step(t, Goto(stack[t], "return"),
                       IF ok THEN NoExc
                       ELSE hook_error("post_install", Error("CalledProcessError")),
                       IF ok THEN fs ELSE rmtree(fs, PkgDir(top.package)),
                       <<EvExec(t, top.op, "hook",
                                hook_script("post_install", top.package, FALSE),
                                InputFor(top.options), FALSE, ok)>>)

\* package.py 107-111
install_hook(t) ==
    /\ At(t, "install", "hook")
    /\ run_hook(t, "post_install", "return")

-----------------------------------------------------------------------------
(* remove_package *)

\* remove_package deleting the directory before it runs the hook
remove_enter_rmtree_first(f, s, package_name, options) ==
    LET r == lookup_package(Catalog, package_name)
    IN  IF r.exc # NoExc THEN [exc |-> r.exc, stack |-> s]
        ELSE IF ~is_installed(f, r.package)
        THEN Raised(s, "PackageNotInstalledError")
        ELSE Entered(s, Frame("remove", package_name, options, "rmtree", r.package))

\* package.py 169-179
remove_enter(f, s, package_name, options) ==
    LET r == lookup_package(Catalog, package_name)
    IN  IF r.exc # NoExc THEN [exc |-> r.exc, stack |-> s]
        ELSE IF ~is_installed(f, r.package)
        THEN Raised(s, "PackageNotInstalledError")
        ELSE Entered(s, Frame("remove", package_name, options, "hook", r.package))

remove_package(t, package_name, options) ==
    Begin(t, "remove", package_name, options,
          remove_enter(fs, <<>>, package_name, options))

\* remove_hook going on to the deletion whether or not the hook failed
remove_hook_unguarded(t) ==
    /\ At(t, "remove", "hook")
    /\ run_hook_unguarded(t, "pre_remove", "rmtree")

\* package.py 181-185
remove_hook(t) ==
    /\ At(t, "remove", "hook")
    /\ run_hook(t, "pre_remove", "rmtree")

\* remove_rmtree deleting the data directory with the install directory
remove_rmtree_with_vardir(t) ==
    /\ At(t, "remove", "rmtree")
    /\ LET dir == PkgDir(Top(t).package)
       IN  IF is_dir(fs, dir)
           THEN Step(t, Goto(stack[t], "return"), NoExc,
                     rmtree(rmtree(fs, dir), PkgVarDir(Top(t).package)),
                     <<EvFs(t, "remove", "rmtree", dir, TRUE)>>)
           ELSE Step(t, stack[t], Error("FileNotFoundError"), fs,
                     <<EvFs(t, "remove", "rmtree", dir, FALSE)>>)

\* remove_rmtree deleting the directory that holds all installed packages
remove_rmtree_all_packages(t) ==
    /\ At(t, "remove", "rmtree")
    /\ LET dir == PkgDir(Top(t).package)
       IN  IF is_dir(fs, dir)
           THEN Step(t, Goto(stack[t], "return"), NoExc,
                     rmtree(fs, Join(Home, <<"packages">>)),
                     <<EvFs(t, "remove", "rmtree", dir, TRUE)>>)
           ELSE Step(t, stack[t], Error("FileNotFoundError"), fs,
                     <<EvFs(t, "remove", "rmtree", dir, FALSE)>>)

\* package.py 187
remove_rmtree(t) ==
    /\ At(t, "remove", "rmtree")
    /\ LET dir == PkgDir(Top(t).package)
       IN  IF is_dir(fs, dir)
           THEN Step(t, Goto(stack[t], "return"), NoExc, rmtree(fs, dir),
                     <<EvFs(t, "remove", "rmtree", dir, TRUE)>>)
           ELSE Step(t, stack[t], Error("FileNotFoundError"), fs,
                     <<EvFs(t, "remove", "rmtree", dir, FALSE)>>)

-----------------------------------------------------------------------------
(* update_package *)

\* update_enter without the `if not package.is_installed(): raise`
update_enter_unchecked(f, s, package_name, options) ==
    LET r == lookup_package(Catalog, package_name)
    IN  IF r.exc # NoExc THEN [exc |-> r.exc, stack |-> s]
        ELSE Entered(s, Frame("update", package_name, options,
                              IF is_local(r.package) THEN "pre_update" ELSE "query",
                              r.package))

\* package.py 118-129
update_enter(f, s, package_name, options) ==
    LET r == lookup_package(Catalog, package_name)
    IN  IF r.exc # NoExc THEN [exc |-> r.exc, stack |-> s]
        ELSE IF ~is_installed(f, r.package)
        THEN Raised(s, "PackageNotInstalledError")
        ELSE Entered(s, Frame("update", package_name, options,
                              IF is_local(r.package) THEN "pre_update" ELSE "query",
                              r.package))

update_package(t, package_name, options) ==
    Begin(t, "update", package_name, options,
          update_enter(fs, <<>>, package_name, options))

\* what `git config remote.origin.url` may print
QueryOutputs == {GitUrl, OtherGitUrl}

\* package.py 133: `existing_package_url != package.url`
url_changed(existing_package_url, package) ==
    ~py_eq(existing_package_url, PyStr(package.url))

\* package.py 130-136
update_query(t) ==
    /\ At(t, "update", "query")
    /\ \/ \E stdout \in QueryOutputs :
              Step(t, Goto(stack[t],
                           IF url_changed(run_pearl_bash(stdout), Top(t).package)
                           THEN "ask" ELSE "pre_update"),
                   NoExc, fs,
                   <<Merge(EvExec(t, "update", "query", QueryScript, "None", TRUE, TRUE),
                           [stdout |-> stdout])>>)
       \/ Step(t, stack[t], Error("CalledProcessError"), fs,
               <<EvExec(t, "update", "query", QueryScript, "None", TRUE, FALSE)>>)

\* package.py 137: ask("...?" "N"), the two literals being one prompt string
update_ask_args == [yes_as_default_answer |-> PyBool(FALSE), no_confirm |-> PyBool(FALSE)]

\* package.py 137 with utils.py 126-147, one read of stdin at a time
update_ask(t) ==
    /\ At(t, "update", "ask")
    /\ LET a == update_ask_args
           top == Top(t)
           call == IF top.reads = 0
                   THEN <<EvAsk(t, a.yes_as_default_answer, a.no_confirm)>> ELSE <<>>
           quick == ask_no_confirm(a.yes_as_default_answer, a.no_confirm)
           After(value) == Goto(stack[t], IF truthy(value) THEN "remove" ELSE "pre_update")
       IN  IF quick.done
           THEN Step(t, After(quick.value), NoExc, fs, call)
           ELSE \E typed \in Answers :
                    LET r == ask_input(a.yes_as_default_answer, typed)
                    IN  /\ ~r.done => top.reads < MaxRetries
                        /\ Step(t,
                                IF r.done THEN After(r.value)
                                ELSE [stack[t] EXCEPT ![Len(stack[t])].reads = @ + 1],
                                NoExc, fs, call \o <<EvInput(t, typed)>>)

\* package.py 138: remove_package(pearl_env, package_name)
update_remove_options(options) == DefaultOptions
update_remove(t) ==
    /\ At(t, "update", "remove")
    /\ LET top == Top(t)
           o == update_remove_options(top.options)
           e == remove_enter(fs, Goto(stack[t], "install"), top.package_name, o)
       IN  Step(t, e.stack, e.exc, fs,
                <<EvCall(t, "remove", top.package_name, o, Len(stack[t]))>>)

\* update_package without the install_package call after remove_package
update_install_skipped(t) ==
    /\ At(t, "update", "install")
    /\ Step(t, Goto(stack[t], "pre_update"), NoExc, fs, << >>)

\* package.py 139: install_package(pearl_env, package_name)
update_install_options(options) == DefaultOptions
update_install(t) ==
    /\ At(t, "update", "install")
    /\ LET top == Top(t)
           o == update_install_options(top.options)
           e == install_enter(fs, Goto(stack[t], "pre_update"), top.package_name, o)
       IN  Step(t, e.stack, e.exc, fs,
                <<EvCall(t, "install", top.package_name, o, Len(stack[t]))>>)

\* package.py 141-145
update_pre_hook(t) ==
    /\ At(t, "update", "pre_update")
    /\ run_hook(t, "pre_update", "stage")

\* package.py 147-156
update_stage(t) ==
    /\ At(t, "update", "stage")
    /\ stage(t, "pull", PullScript(Top(t).package, QuietFor(Top(t).options)), "post_update")

\* package.py 158-162
update_post_hook(t) ==
    /\ At(t, "update", "post_update")
    /\ run_hook(t, "post_update", "return")

-----------------------------------------------------------------------------
(* emerge_package *)

\* emerge_enter with the branches of `if package.is_installed()` exchanged
emerge_enter_exchanged(f, s, package_name, options) ==
    LET r == lookup_package(Catalog, package_name)
    IN  IF r.exc # NoExc THEN [exc |-> r.exc, stack |-> s]
        ELSE Entered(s, Frame("emerge", package_name, options,
                              IF is_installed(f, r.package) THEN "install" ELSE "update",
                              r.package))

\* emerge_enter without the `if package.is_installed()`: install in every case
emerge_enter_always_install(f, s, package_name, options) ==
    LET r == lookup_package(Catalog, package_name)
    IN  IF r.exc # NoExc THEN [exc |-> r.exc, stack |-> s]
        ELSE Entered(s, Frame("emerge", package_name, options, "install", r.package))

\* package.py 71-72
emerge_enter(f, s, package_name, options) ==
    LET r == lookup_package(Catalog, package_name)
    IN  IF r.exc # NoExc THEN [exc |-> r.exc, stack |-> s]
        ELSE Entered(s, Frame("emerge", package_name, options,
                              IF is_installed(f, r.package) THEN "update" ELSE "install",
                              r.package))

emerge_package(t, package_name, options) ==
    Begin(t, "emerge", package_name, options,
          emerge_enter(fs, <<>>, package_name, options))

\* package.py 73
emerge_update(t) ==
    /\ At(t, "emerge", "update")
    /\ LET top == Top(t)
           e == update_enter(fs, Goto(stack[t], "return"), top.package_name, top.options)
       IN  Step(t, e.stack, e.exc, fs,
                <<EvCall(t, "update", top.package_name, top.options, Len(stack[t]))>>)

\* package.py 75
emerge_install(t) ==
    /\ At(t, "emerge", "install")
    /\ LET top == Top(t)
           e == install_enter(fs, Goto(stack[t], "return"), top.package_name, top.options)
       IN  Step(t, e.stack, e.exc, fs,
                <<EvCall(t, "install", top.package_name, top.options, Len(stack[t]))>>)

-----------------------------------------------------------------------------
(* The managed home before an invocation, and the callers' inputs *)

SourceFiles == {"new"}
StaleFiles == {"old"}

\* what a package's hooks have left in its data directory
VarFiles == {"data"}

\* a package an earlier invocation installed, its content since outdated
preinstalled(f, p) ==
    [mkdir(mkdir(f, PkgDir(p)), PkgVarDir(p)) EXCEPT ![PkgDir(p)] = StaleFiles,
                                                    ![PkgVarDir(p)] = VarFiles]

RECURSIVE preinstall(_, _)
preinstall(f, ps) ==
    IF ps = {} THEN f
    ELSE LET p == CHOOSE x \in ps : TRUE IN preinstall(preinstalled(f, p), ps \ {p})

\* init_pearl (system.py 27-31) has created the home
EmptyHome == mkdir(mkdir(NoFilesystem, Join(Home, <<"packages">>)), Join(Home, <<"var">>))

InitialFilesystems ==
    {preinstall(h, ps) :
        h \in {EmptyHome, [mkdir(EmptyHome, Path(LocalUrl)) EXCEPT ![Path(LocalUrl)] = SourceFiles]},
        ps \in SUBSET Packages}

Identifiers ==
    { <<"a">>, <<"b">>,
      <<"r", "/", "a">>, <<"s", "/", "a">>, <<"q", "/", "a">>, <<"t", "/", "a">>,
      <<"r", "/", "a", "/", "b">>, <<"/", "a">>, <<"r", "/">> }

Main == "main"

\* The call has returned to the caller outside the engine, which goes on to its
\* next call; the engine keeps nothing between calls but the filesystem.
call_returns(t) ==
    /\ Idle(t)
    /\ last[t] # NoOutcome
    /\ last' = [last EXCEPT ![t] = NoOutcome]
    /\ log' = [log EXCEPT ![t] = <<>>]
    /\ fs0' = [fs0 EXCEPT ![t] = NoFilesystem]
    /\ previous' = [previous EXCEPT ![t] =
           LET p == lookup_package(Catalog, last[t].package_name).package
           IN  Previous(last[t].op, p, is_installed(fs0[t], p), last[t].exc # NoExc)]
    /\ UNCHANGED <<fs, stack, sh, rc>>

Init ==
    /\ fs \in InitialFilesystems
    /\ stack = [t \in Threads |-> <<>>]
    /\ log = [t \in Threads |-> <<>>]
    /\ fs0 = [t \in Threads |-> NoFilesystem]
    /\ last = [t \in Threads |-> NoOutcome]
    /\ previous = [t \in Threads |-> NoPrevious]
    /\ sh = NoShell
    /\ rc = NoFiles

Next ==
    \/ \E id \in Identifiers, o \in OptionsSet : install_package(Main, id, o)
    \/ \E id \in Identifiers, o \in OptionsSet : update_package(Main, id, o)
    \/ \E id \in Identifiers, o \in OptionsSet : remove_package(Main, id, o)
    \/ \E id \in Identifiers, o \in OptionsSet : emerge_package(Main, id, o)
    \/ install_mkdir(Main)
    \/ install_stage(Main)
    \/ install_vardir(Main)
    \/ install_hook(Main)
    \/ update_query(Main)
    \/ update_ask(Main)
    \/ update_remove(Main)
    \/ update_install(Main)
    \/ update_pre_hook(Main)
    \/ update_stage(Main)
    \/ update_post_hook(Main)
    \/ remove_hook(Main)
    \/ remove_rmtree(Main)
    \/ emerge_update(Main)
    \/ emerge_install(Main)
    \/ call_returns(Main)

Spec == Init /\ [][Next]_vars

-----------------------------------------------------------------------------
(* A hook script followed line by line by bash (utils.py run_pearl_bash,    *)
(* package.py _run)                                                          *)

Root == Path(<<"root">>)

\* _BASH_SCRIPT_HEADER_TEMPLATE, less the lines that only adjust PATH
BASH_SCRIPT_HEADER ==
    << [line |-> "set", option |-> "-e -o pipefail"],
       [line |-> "assign", var |-> "PEARL_ROOT", path |-> Root],
       [line |-> "assign", var |-> "PEARL_HOME", path |-> Home],
       [line |-> "cd", var |-> "PEARL_HOME"],
       [line |-> "source", file |-> "buava/lib/utils.sh"],
       [line |-> "source", file |-> "buava/lib/osx-compat.sh"],
       [line |-> "source", file |-> "builtins/utils.sh"] >>

\* run_pearl_bash: '{bashheader}\n{script}'
bash_script(script) == BASH_SCRIPT_HEADER \o script

\* `[[ -f path ]]`
is_file(f, path) ==
    LET dir == SubSeq(path, 1, Len(path) - 1)
    IN  is_dir(f, dir) /\ path[Len(path)][1] \in f[dir]

\* the bash process run_bash starts on a script: the line it is at, its
\* variables, its functions (each the default no-op or the package's own),
\* its working directory and the functions it has called; args are the hook and
\* package _run was given, defines the hook functions install.sh defines
Shell(args, script, defines) ==
    [status |-> "running", args |-> args, script |-> script, defines |-> defines,
     at |-> 1, errexit |-> FALSE, env |-> << >>, funcs |-> << >>,
     cwd |-> << >>, called |-> << >>]

ShAt(kind) ==
    /\ sh.status = "running"
    /\ sh.at <= Len(sh.script)
    /\ sh.script[sh.at].line = kind
ShLine == sh.script[sh.at]
ShOthers == UNCHANGED <<fs, stack, log, fs0, last, previous, rc>>

\* set -e -o pipefail
sh_set ==
    /\ ShAt("set")
    /\ sh' = [sh EXCEPT !.errexit = TRUE, !.at = @ + 1]
    /\ ShOthers

\* VAR="value"
sh_assign ==
    /\ ShAt("assign")
    /\ LET value == IF "path" \in DOMAIN ShLine THEN ShLine.path ELSE ShLine.str
       IN  sh' = [sh EXCEPT !.env = Merge(ShLine.var :> value, @), !.at = @ + 1]
    /\ ShOthers

\* VAR="$BASE"/rel
sh_assign_under ==
    /\ ShAt("assign_under")
    /\ sh' = [sh EXCEPT !.env = Merge(ShLine.var :> (sh.env[ShLine.base] \o ShLine.rel), @),
                        !.at = @ + 1]
    /\ ShOthers

\* fn() { :; }
sh_define_noop ==
    /\ ShAt("define_noop")
    /\ sh' = [sh EXCEPT !.funcs = Merge(ShLine.fn :> "noop", @), !.at = @ + 1]
    /\ ShOthers

\* source of one of the libraries shipped with pearl
sh_source ==
    /\ ShAt("source")
    /\ sh' = [sh EXCEPT !.at = @ + 1]
    /\ ShOthers

\* [[ -f $VAR ]] && source "$VAR": the file's definitions replace those made
\* before; a missing file does not end the script (the test is not the last
\* command of the && list)
sh_source_if_file ==
    /\ ShAt("source_if_file")
    /\ sh' = IF is_file(fs, sh.env[ShLine.var])
             THEN [sh EXCEPT !.funcs = Merge([fn \in sh.defines |-> "package"], @),
                             !.at = @ + 1]
             ELSE [sh EXCEPT !.at = @ + 1]
    /\ ShOthers

\* cd "$VAR": under set -e a failed cd ends the script
sh_cd ==
    /\ ShAt("cd")
    /\ sh' = IF is_dir(fs, sh.env[ShLine.var])
             THEN [sh EXCEPT !.cwd = sh.env[ShLine.var], !.at = @ + 1]
             ELSE [sh EXCEPT !.status = "failed"]
    /\ ShOthers

\* fn: the function as last defined runs; the default one does nothing and
\* succeeds, the package's own succeeds or fails
sh_call ==
    /\ ShAt("call")
    /\ IF ShLine.fn \notin DOMAIN sh.funcs
       THEN sh' = [sh EXCEPT !.status = "failed"]
       ELSE LET body == sh.funcs[ShLine.fn]
                ran == Append(sh.called, [fn |-> ShLine.fn, body |-> body, cwd |-> sh.cwd])
            IN  \E ok \in BOOLEAN :
                    /\ body = "noop" => ok
                    /\ sh' = IF ok THEN [sh EXCEPT !.called = ran, !.at = @ + 1]
                             ELSE [sh EXCEPT !.called = ran, !.status = "failed"]
    /\ ShOthers

\* end of the script
sh_exit ==
    /\ sh.status = "running"
    /\ sh.at > Len(sh.script)
    /\ sh' = [sh EXCEPT !.status = "done"]
    /\ ShOthers

\* pearl-config/install.sh of an installed package
with_install_sh(f, p) ==
    LET dir == Join(PkgDir(p), <<"pearl-config">>)
    IN  [mkdir(f, dir) EXCEPT ![dir] = {"install.sh"}]

\* _run(hook, pearl_env, package): any hook, any package, installed with an
\* install.sh defining any of the hooks, installed without one, or not there
HookInit ==
    /\ \E p \in Packages, hook \in {HookNames[i] : i \in 1..Len(HookNames)} :
           /\ fs \in {EmptyHome, preinstalled(EmptyHome, p),
                      with_install_sh(preinstalled(EmptyHome, p), p)}
           /\ sh \in {Shell([script |-> hook, package |-> p],
                            bash_script(hook_script(hook, p, FALSE)), defines) :
                         defines \in SUBSET {HookNames[i] : i \in 1..Len(HookNames)}}
    /\ stack = [t \in Threads |-> <<>>]
    /\ log = [t \in Threads |-> <<>>]
    /\ fs0 = [t \in Threads |-> NoFilesystem]
    /\ last = [t \in Threads |-> NoOutcome]
    /\ previous = [t \in Threads |-> NoPrevious]
    /\ rc = NoFiles

HookNext ==
    \/ sh_set
    \/ sh_assign
    \/ sh_assign_under
    \/ sh_define_noop
    \/ sh_source
    \/ sh_source_if_file
    \/ sh_cd
    \/ sh_call
    \/ sh_exit

HookSpec == HookInit /\ [][HookNext]_vars

-----------------------------------------------------------------------------
(* list_packages (package.py 190-219) *)

\* str.lower() of one character, as re.IGNORECASE compares
lower(c) ==
    CASE c = "A" -> "a" [] c = "B" -> "b" [] c = "O" -> "o" [] c = "P" -> "p"
      [] c = "T" -> "t" [] c = "W" -> "w" [] OTHER -> c

\* a pattern character matches a text character
matches_char(pc, c) == pc = "." \/ lower(pc) = lower(c)

\* re: does the pattern, of characters, `.` and `x*`, match at the start of text
RECURSIVE match_here(_, _)
match_here(pattern, text) ==
    IF pattern = << >> THEN TRUE
    ELSE IF Len(pattern) >= 2 /\ pattern[2] = "*"
    THEN \E k \in 0..Len(text) :
             /\ \A j \in 1..k : matches_char(pattern[1], text[j])
             /\ match_here(SubSeq(pattern, 3, Len(pattern)), SubSeq(text, k + 1, Len(text)))
    ELSE /\ text # << >>
         /\ matches_char(pattern[1], text[1])
         /\ match_here(Tail(pattern), Tail(text))

\* re.compile(pattern, flags=re.IGNORECASE).search(text)
search(pattern, text) ==
    \E i \in 1..(Len(text) + 1) : match_here(pattern, SubSeq(text, i, Len(text)))

\* Package.full_name, Package.description
full_name(p) == p.repo_name \o <<"/">> \o p.name
Described(p, description) == Merge(p, [description |-> description])

PkgPA == Described(Package(<<"r">>, <<"p", "a">>, LocalUrl), <<"O", "n", "e">>)
PkgPB == Described(Package(<<"r">>, <<"p", "b">>, GitUrl), <<"T", "w", "o">>)
PkgPC == Described(Package(<<"s">>, <<"p", "c">>, GitUrl), <<"O", "p", "a">>)

\* pearl_env.packages for list_packages: descriptions matter here
DescribedCatalog ==
    << [key |-> <<"r">>, value |-> << [key |-> <<"p", "a">>, value |-> PkgPA],
                                      [key |-> <<"p", "b">>, value |-> PkgPB] >>],
       [key |-> <<"s">>, value |-> << [key |-> <<"p", "c">>, value |-> PkgPC] >>] >>

\* `for _, repo_packages in packages.items(): for _, package in repo_packages.items()`
RECURSIVE items(_)
items(packages) ==
    IF packages = << >> THEN << >>
    ELSE [j \in 1..Len(packages[1].value) |-> packages[1].value[j].value]
         \o items(Tail(packages))

\* messenger.print of a line
EvPrint(t, text) == [ev |-> "print", t |-> t, text |-> text]

\* package.py 209-218: the two lines printed for a package
list_lines(f, package) ==
    << [reponame |-> package.repo_name, package |-> package.name,
        installed |-> IF is_installed(f, package) THEN "[installed]" ELSE ""],
       [description |-> package.description] >>

\* package.py 205, with the installed packages printed first
list_order_installed_first(uninstalled_packages, installed_packages) ==
    installed_packages \o uninstalled_packages

\* package.py 205: `uninstalled_packages + installed_packages`
list_order(uninstalled_packages, installed_packages) ==
    uninstalled_packages \o installed_packages

ListFrame(pattern, options) ==
    Merge(Frame("list", pattern, options, "scan", NoPackage),
          [todo |-> items(DescribedCatalog), uninstalled_packages |-> << >>,
           installed_packages |-> << >>, printing |-> << >>])

list_packages(t, pattern, options) ==
    Begin(t, "list", pattern, options, Entered(<<>>, ListFrame(pattern, options)))

\* package.py 197-203: one turn of the loops, and the end of them
list_scan(t) ==
    /\ At(t, "list", "scan")
    /\ LET top == Top(t)
           n == Len(stack[t])
       IN  IF top.todo = << >>
           THEN Step(t, [stack[t] EXCEPT ![n].pc = "print",
                             ![n].printing = list_order(top.uninstalled_packages,
                                                        top.installed_packages)],
                     NoExc, fs, << >>)
           ELSE LET package == Head(top.todo)
                    rest == [stack[t] EXCEPT ![n].todo = Tail(@)]
                IN  IF /\ ~search(top.package_name, full_name(package))
                       /\ ~search(top.package_name, package.description)
                    THEN Step(t, rest, NoExc, fs, << >>)
                    ELSE IF is_installed(fs, package)
                    THEN Step(t, [rest EXCEPT ![n].installed_packages = Append(@, package)],
                              NoExc, fs, << >>)
                    ELSE Step(t, [rest EXCEPT ![n].uninstalled_packages = Append(@, package)],
                              NoExc, fs, << >>)

\* package.py 205-219: one turn of the loop, and the return
list_print(t) ==
    /\ At(t, "list", "print")
    /\ LET top == Top(t)
           n == Len(stack[t])
       IN  IF top.printing = << >>
           THEN Step(t, Goto(stack[t], "return"), NoExc, fs, << >>)
           ELSE LET lines == list_lines(fs, Head(top.printing))
                IN  Step(t, [stack[t] EXCEPT ![n].printing = Tail(@)], NoExc, fs,
                         <<EvPrint(t, lines[1]), EvPrint(t, lines[2])>>)

DescribedPackages == {PkgPA, PkgPB, PkgPC}
\* search patterns: the default one, and words in either case
Patterns ==
    { <<".", "*">>, <<"p">>, <<"P", "B">>, <<"p", "a">>, <<"t", "w", "o">>,
      <<"s", "/">>, <<"z">> }

ListInit ==
    /\ fs \in {preinstall(EmptyHome, ps) : ps \in SUBSET DescribedPackages}
    /\ stack = [t \in Threads |-> <<>>]
    /\ log = [t \in Threads |-> <<>>]
    /\ fs0 = [t \in Threads |-> NoFilesystem]
    /\ last = [t \in Threads |-> NoOutcome]
    /\ previous = [t \in Threads |-> NoPrevious]
    /\ sh = NoShell
    /\ rc = NoFiles

ListNext ==
    \/ \E pattern \in Patterns, o \in OptionsSet : list_packages(Main, pattern, o)
    \/ list_scan(Main)
    \/ list_print(Main)
    \/ call_returns(Main)

ListSpec == ListInit /\ [][ListNext]_vars

-----------------------------------------------------------------------------
(* apply, unapply (utils.py 150-185) and init_pearl (system.py 15-113) *)

\* str.replace(old, new) for a non-empty old
RECURSIVE str_replace(_, _, _)
str_replace(s, old, new) ==
    IF Len(s) < Len(old) THEN s
    ELSE IF SubSeq(s, 1, Len(old)) = old
    THEN new \o str_replace(SubSeq(s, Len(old) + 1, Len(s)), old, new)
    ELSE <<Head(s)>> \o str_replace(Tail(s), old, new)

\* `x in list`
list_contains(list, x) == \E i \in 1..Len(list) : list[i] = x

\* path.exists(), and f.read() of a file that exists
exists(r, filename) == filename \in DOMAIN r
read(r, filename) == r[filename]
\* path.touch() of a file that does not exist
touch(r, filename) == Merge(filename :> << >>, r)

\* utils.py 164-167: what apply leaves in a file that held content
apply_content(line, content) ==
    IF ~list_contains(split(content, "\n"), line)
    THEN line \o <<"\n">> \o content
    ELSE content

\* utils.py 150-167
apply(r, line, filename) ==
    LET touched == IF ~exists(r, filename) THEN touch(r, filename) ELSE r
    IN  [touched EXCEPT ![filename] = apply_content(line, read(touched, filename))]

\* utils.py 170-185
unapply(r, line, filename) ==
    IF ~exists(r, filename) THEN r
    ELSE [r EXCEPT ![filename] =
             str_replace(str_replace(read(r, filename), line \o <<"\n">>, << >>),
                         line, << >>)]

\* the strings init_pearl applies, letters standing for their words:
\* "export PEARL_ROOT=...\nsource .../pearl.sh", "set -x PEARL_ROOT ...\nsource
\* .../pearl.fish", "source .../pearl.vim", "source .../pearl.el"
ShellLine == <<"e", "\n", "s">>
FishLine == <<"x", "\n", "f">>
VimLine == <<"v">>
EmacsLine == <<"m">>

\* system.py 43-101 (and 129-185): string and file of each activation, in order
Activations ==
    << [line |-> ShellLine, filename |-> ".bashrc"],
       [line |-> ShellLine, filename |-> ".zshrc"],
       [line |-> FishLine, filename |-> ".config/fish/config.fish"],
       [line |-> VimLine, filename |-> ".vimrc"],
       [line |-> EmacsLine, filename |-> ".emacs"] >>

\* longest startup file on which init_pearl is still called
MaxContent == 6

\* system.py 27-41: the directories of the home, bin/pearl and pearl.conf
init_home(f) ==
    LET dirs == mkdir(mkdir(mkdir(mkdir(mkdir(f, Join(Home, <<"bin">>)),
                    Join(Home, <<"packages">>)), Join(Home, <<"repos">>)),
                    Join(Home, <<"tmp">>)), Join(Home, <<"var">>))
    IN  [dirs EXCEPT ![Join(Home, <<"bin">>)] = @ \cup {"pearl"},
                     ![Home] = @ \cup {"pearl.conf"}]

\* apply or unapply called
EvApply(t, what, activation) ==
    [ev |-> "rc", t |-> t, what |-> what, line |-> activation.line,
     filename |-> activation.filename]

InitFrame(options) ==
    Merge(Frame("init", << >>, options, "home", NoPackage), [todo |-> Activations])

init_pearl(t, options) ==
    /\ \A filename \in DOMAIN rc : Len(rc[filename]) <= MaxContent
    /\ Begin(t, "init", << >>, options, Entered(<<>>, InitFrame(options)))

\* system.py 27-41
init_pearl_home(t) ==
    /\ At(t, "init", "home")
    /\ StepFiles(t, Goto(stack[t], "apply"), NoExc, init_home(fs), rc,
                 <<EvFs(t, "init", "mkdir", Home, TRUE)>>)

\* system.py 43-113: one apply call, and the return after the last
init_pearl_apply(t) ==
    /\ At(t, "init", "apply")
    /\ LET top == Top(t)
           n == Len(stack[t])
       IN  IF top.todo = << >>
           THEN StepFiles(t, Goto(stack[t], "return"), NoExc, fs, rc, << >>)
           ELSE StepFiles(t, [stack[t] EXCEPT ![n].todo = Tail(@)], NoExc, fs,
                          apply(rc, Head(top.todo).line, Head(top.todo).filename),
                          <<EvApply(t, "apply", Head(top.todo))>>)

\* what a startup file may hold before Pearl touches it: the user's own line,
\* or that line followed by the file's activation string
UserContents(activation) == { <<"u">>, <<"u", "\n">> \o activation.line }
RcFiles == {Activations[i].filename : i \in 1..Len(Activations)}
InitialRc ==
    {r \in UNION {[S -> UNION {UserContents(Activations[i]) : i \in 1..Len(Activations)}] :
                     S \in SUBSET RcFiles} :
        \A i \in 1..Len(Activations) :
            Activations[i].filename \in DOMAIN r =>
                r[Activations[i].filename] \in UserContents(Activations[i])}

InitInit ==
    /\ fs \in {NoFilesystem, EmptyHome}
    /\ rc \in InitialRc
    /\ stack = [t \in Threads |-> <<>>]
    /\ log = [t \in Threads |-> <<>>]
    /\ fs0 = [t \in Threads |-> NoFilesystem]
    /\ last = [t \in Threads |-> NoOutcome]
    /\ previous = [t \in Threads |-> NoPrevious]
    /\ sh = NoShell

InitNext ==
    \/ \E o \in OptionsSet : init_pearl(Main, o)
    \/ init_pearl_home(Main)
    \/ init_pearl_apply(Main)
    \/ call_returns(Main)

InitSpec == InitInit /\ [][InitNext]_vars

-----------------------------------------------------------------------------
(* remove_pearl and update_pearl (system.py 116-219) *)

\* `options.no_confirm or ask(prompt, default)`: control goes on with stack yes
\* or with stack no; ask reads stdin one line at a time (utils.py 126-147), the
\* operation's prompts together being given at most MaxRetries lines that are
\* no answer
or_ask(t, yes_as_default_answer, yes, no) ==
    LET top == Top(t)
        n == Len(stack[t])
        no_confirm == PyBool(FALSE)
        asked == /\ log[t][Len(log[t])].ev = "input"
                 /\ ~ask_input(yes_as_default_answer, log[t][Len(log[t])].typed).done
        call == IF asked THEN <<>>
                ELSE <<EvAsk(t, yes_as_default_answer, no_confirm)>>
        quick == ask_no_confirm(yes_as_default_answer, no_confirm)
        After(value) == IF truthy(value) THEN yes ELSE no
    IN  IF top.options.no_confirm
        THEN Step(t, yes, NoExc, fs, << >>)
        ELSE IF quick.done
        THEN Step(t, After(quick.value), NoExc, fs, call)
        ELSE \E typed \in Answers :
                 LET r == ask_input(yes_as_default_answer, typed)
                 IN  /\ ~r.done => top.reads < MaxRetries
                     /\ Step(t,
                             IF r.done THEN After(r.value)
                             ELSE [stack[t] EXCEPT ![n].reads = @ + 1],
                             NoExc, fs, call \o <<EvInput(t, typed)>>)

\* the running operation at statement pc, its loop variables set
Continue(s, pc, fields) ==
    LET top == s[Len(s)]
    IN  [s EXCEPT ![Len(s)] =
             [k \in DOMAIN top |->
                  IF k = "pc" THEN pc
                  ELSE IF k \in DOMAIN fields THEN fields[k]
                  ELSE top[k]]]

\* system.py 123, 128, 193: ask(..., "N")
RemoveDefault == PyStr(<<"N">>)
\* system.py 199: ask(..., "Y")
UpdateDefault == PyStr(<<"Y">>)

SystemFrame(op, options, pc) ==
    Merge(Frame(op, << >>, options, pc, NoPackage),
          [repos |-> Catalog, packages |-> << >>, todo |-> Activations])

remove_pearl(t, options) ==
    Begin(t, "remove_pearl", << >>, options,
          Entered(<<>>, SystemFrame("remove_pearl", options, "repos")))

\* system.py 122-123: the next repository and its prompt
remove_pearl_repos(t) ==
    /\ At(t, "remove_pearl", "repos")
    /\ LET top == Top(t)
       IN  IF top.repos = << >>
           THEN Step(t, Goto(stack[t], "hooks_ask"), NoExc, fs, << >>)
           ELSE or_ask(t, RemoveDefault,
                       Continue(stack[t], "packages",
                                [repos |-> Tail(top.repos),
                                 packages |-> Head(top.repos).value]),
                       Continue(stack[t], "repos", [repos |-> Tail(top.repos)]))

\* remove_package called for every package of the repository
remove_pearl_packages_unchecked(t) ==
    /\ At(t, "remove_pearl", "packages")
    /\ LET top == Top(t)
       IN  IF top.packages = << >>
           THEN Step(t, Goto(stack[t], "repos"), NoExc, fs, << >>)
           ELSE LET package == Head(top.packages).value
                    rest == Continue(stack[t], "packages",
                                     [packages |-> Tail(top.packages)])
                    e == remove_enter(fs, rest, full_name(package), top.options)
                IN  Step(t, e.stack, e.exc, fs,
                         <<EvCall(t, "remove", full_name(package), top.options,
                                  Len(stack[t]))>>)

\* system.py 124-126: the next package of the repository
remove_pearl_packages(t) ==
    /\ At(t, "remove_pearl", "packages")
    /\ LET top == Top(t)
       IN  IF top.packages = << >>
           THEN Step(t, Goto(stack[t], "repos"), NoExc, fs, << >>)
           ELSE LET package == Head(top.packages).value
                    rest == Continue(stack[t], "packages",
                                     [packages |-> Tail(top.packages)])
                IN  IF is_installed(fs, package)
                    THEN LET e == remove_enter(fs, rest, full_name(package), top.options)
                         IN  Step(t, e.stack, e.exc, fs,
                                  <<EvCall(t, "remove", full_name(package), top.options,
                                           Len(stack[t]))>>)
                    ELSE Step(t, rest, NoExc, fs, << >>)

\* system.py 128
remove_pearl_hooks_ask(t) ==
    /\ At(t, "remove_pearl", "hooks_ask")
    /\ or_ask(t, RemoveDefault,
              Continue(stack[t], "unapply", << >>),
              Continue(stack[t], "home_ask", << >>))

\* system.py 129-191: one unapply call, and the end of the block
remove_pearl_unapply(t) ==
    /\ At(t, "remove_pearl", "unapply")
    /\ LET top == Top(t)
       IN  IF top.todo = << >>
           THEN Step(t, Goto(stack[t], "home_ask"), NoExc, fs, << >>)
           ELSE StepFiles(t, Continue(stack[t], "unapply", [todo |-> Tail(top.todo)]),
                          NoExc, fs,
                          unapply(rc, Head(top.todo).line, Head(top.todo).filename),
                          <<EvApply(t, "unapply", Head(top.todo))>>)

\* system.py 193
remove_pearl_home_ask(t) ==
    /\ At(t, "remove_pearl", "home_ask")
    /\ or_ask(t, RemoveDefault,
              Continue(stack[t], "rmtree", << >>),
              Continue(stack[t], "return", << >>))

\* system.py 194
remove_pearl_rmtree(t) ==
    /\ At(t, "remove_pearl", "rmtree")
    /\ IF is_dir(fs, Home)
       THEN Step(t, Goto(stack[t], "return"), NoExc, rmtree(fs, Home),
                 <<EvFs(t, "remove_pearl", "rmtree", Home, TRUE)>>)
       ELSE Step(t, stack[t], Error("FileNotFoundError"), fs,
                 <<EvFs(t, "remove_pearl", "rmtree", Home, FALSE)>>)

update_pearl(t, options) ==
    Begin(t, "update_pearl", << >>, options,
          Entered(<<>>, SystemFrame("update_pearl", options, "ask")))

\* system.py 199
update_pearl_ask(t) ==
    /\ At(t, "update_pearl", "ask")
    /\ or_ask(t, UpdateDefault,
              Continue(stack[t], "script", << >>),
              Continue(stack[t], "repos", << >>))

\* system.py 206-214: update_git_repo on the Pearl codebase
RootScript(quiet) == [fn |-> "update_git_repo", dir |-> Root, quiet |-> quiet]
update_pearl_script(t) ==
    /\ At(t, "update_pearl", "script")
    /\ LET top == Top(t)
       IN  \E ok \in BOOLEAN :
               Step(t, Goto(stack[t], "repos"),
                    IF ok THEN NoExc ELSE Error("CalledProcessError"), fs,
                    <<EvExec(t, "update_pearl", "pull", RootScript(QuietFor(top.options)),
                             InputFor(top.options), FALSE, ok)>>)

\* system.py 216: the next repository
update_pearl_repos(t) ==
    /\ At(t, "update_pearl", "repos")
    /\ LET top == Top(t)
       IN  IF top.repos = << >>
           THEN Step(t, Goto(stack[t], "return"), NoExc, fs, << >>)
           ELSE Step(t, Continue(stack[t], "packages",
                                 [repos |-> Tail(top.repos),
                                  packages |-> Head(top.repos).value]),
                     NoExc, fs, << >>)

\* system.py 217-219: the next package of the repository
update_pearl_packages(t) ==
    /\ At(t, "update_pearl", "packages")
    /\ LET top == Top(t)
       IN  IF top.packages = << >>
           THEN Step(t, Goto(stack[t], "repos"), NoExc, fs, << >>)
           ELSE LET package == Head(top.packages).value
                    rest == Continue(stack[t], "packages",
                                     [packages |-> Tail(top.packages)])
                IN  IF is_installed(fs, package)
                    THEN LET e == update_enter(fs, rest, full_name(package), top.options)
                         IN  Step(t, e.stack, e.exc, fs,
                                  <<EvCall(t, "update", full_name(package), top.options,
                                           Len(stack[t]))>>)
                    ELSE Step(t, rest, NoExc, fs, << >>)

\* startup files as init_pearl leaves them on a user's own content
RECURSIVE apply_all(_, _)
apply_all(r, activations) ==
    IF activations = << >> THEN r
    ELSE apply_all(apply(r, Head(activations).line, Head(activations).filename),
                   Tail(activations))
ActivatedRc == apply_all([filename \in RcFiles |-> <<"u">>], Activations)

SystemInit ==
    /\ fs \in InitialFilesystems
    /\ rc \in {NoFiles, ActivatedRc}
    /\ stack = [t \in Threads |-> <<>>]
    /\ log = [t \in Threads |-> <<>>]
    /\ fs0 = [t \in Threads |-> NoFilesystem]
    /\ last = [t \in Threads |-> NoOutcome]
    /\ previous = [t \in Threads |-> NoPrevious]
    /\ sh = NoShell

SystemNext ==
    \/ \E o \in OptionsSet : remove_pearl(Main, o)
    \/ remove_pearl_repos(Main)
    \/ remove_pearl_packages(Main)
    \/ remove_pearl_hooks_ask(Main)
    \/ remove_pearl_unapply(Main)
    \/ remove_pearl_home_ask(Main)
    \/ remove_pearl_rmtree(Main)
    \/ \E o \in OptionsSet : update_pearl(Main, o)
    \/ update_pearl_ask(Main)
    \/ update_pearl_script(Main)
    \/ update_pearl_repos(Main)
    \/ update_pearl_packages(Main)
    \/ remove_hook(Main)
    \/ remove_rmtree(Main)
    \/ update_query(Main)
    \/ update_ask(Main)
    \/ update_remove(Main)
    \/ update_install(Main)
    \/ update_pre_hook(Main)
    \/ update_stage(Main)
    \/ update_post_hook(Main)
    \/ install_mkdir(Main)
    \/ install_stage(Main)
    \/ install_vardir(Main)
    \/ install_hook(Main)

SystemSpec == SystemInit /\ [][SystemNext]_vars

-----------------------------------------------------------------------------
(* Two processes installing at the same time *)

ConcurrentInit ==
    /\ fs \in InitialFilesystems
    /\ rc = NoFiles
    /\ stack = [t \in Threads |-> <<>>]
    /\ log = [t \in Threads |-> <<>>]
    /\ fs0 = [t \in Threads |-> NoFilesystem]
    /\ last = [t \in Threads |-> NoOutcome]
    /\ previous = [t \in Threads |-> NoPrevious]
    /\ sh = NoShell

\* each caller makes one install call; their statements interleave
ConcurrentNext ==
    \E t \in Threads :
        \/ \E p \in Packages : install_package(t, full_name(p), DefaultOptions)
        \/ install_mkdir(t)
        \/ install_stage(t)
        \/ install_vardir(t)
        \/ install_hook(t)

ConcurrentSpec == ConcurrentInit /\ [][ConcurrentNext]_vars

-----------------------------------------------------------------------------
(* What the properties below speak of *)

\* thread t's top-level call has ended and its caller has the outcome
Done(t) == Idle(t) /\ last[t] # NoOutcome

\* thread t's top-level call, while it runs and until its caller moves on
Called(t) == log[t] # <<>>
TopCall(t) == log[t][1]

\* the package an identifier names, NoPackage if none
Named(package_name) == lookup_package(Catalog, package_name).package

IsExec(e) == e.ev = "exec"
IsHook(e, hook) ==
    e.ev = "exec" /\ e.what = "hook" /\ e.script[Len(e.script)].fn = hook
IsAnyHook(e) == e.ev = "exec" /\ e.what = "hook"
IsStaging(e) ==
    \/ e.ev = "exec" /\ e.what \in {"clone", "pull"}
    \/ e.ev = "fs" /\ e.what = "check_and_copy"
IsStagingBy(e, op) == IsStaging(e) /\ e.by = op
IsFs(e) == e.ev = "fs"

-----------------------------------------------------------------------------
\* C1: when the caller's previous call was install(P), begun while P's install
\* directory did not exist, and its next call is install(P) again, that second
\* call ends at once with PackageAlreadyInstalledError: it runs no statement
\* beyond the precondition (no staging, no hook) and leaves the filesystem as the
\* first call left it.
C1_SecondInstallRejected ==
    [][LET call == log'[Main][1]
       IN  ( /\ Quiescent(Main)
             /\ previous[Main].op = "install"
             /\ previous[Main].package # NoPackage
             /\ ~previous[Main].installed
             /\ log'[Main] # <<>>
             /\ call.op = "install"
             /\ Named(call.package_name) = previous[Main].package )
           => ( /\ stack'[Main] = <<>>
                /\ last'[Main] = Outcome("install", call.package_name, call.options,
                                         Error("PackageAlreadyInstalledError"))
                /\ Len(log'[Main]) = 1
                /\ fs' = fs )]_vars

\* C1 witness: an install of a package that was not installed has returned and
\* the install of the same package that followed it has been rejected.
C1_Witness ==
    /\ Idle(Main)
    /\ previous[Main].op = "install"
    /\ previous[Main].package \in Packages
    /\ ~previous[Main].installed
    /\ ~previous[Main].failed
    /\ last[Main].op = "install"
    /\ Named(last[Main].package_name) = previous[Main].package
    /\ last[Main].exc = Error("PackageAlreadyInstalledError")
    /\ fs = fs0[Main]

-----------------------------------------------------------------------------
\* the caller's log, the package its call names and that package's directory
Log == log[Main]
Target == Named(TopCall(Main).package_name)
Events(Test(_)) == {i \in 1..Len(Log) : Test(Log[i])}
Content(f, dir) == IF is_dir(f, dir) THEN {f[dir]} ELSE {}

\* C2: a top-level update or remove of a package that resolves in the catalog
\* and whose install directory did not exist when the call began has ended at
\* its precondition with PackageNotInstalledError: its log holds nothing but the
\* call (no hook, no executor invocation) and the filesystem is as it was.
C2_NotInstalledRejected ==
    ( /\ Called(Main)
      /\ TopCall(Main).op \in {"update", "remove"}
      /\ Target # NoPackage
      /\ ~is_installed(fs0[Main], Target) )
    => ( /\ Done(Main)
         /\ last[Main].exc = Error("PackageNotInstalledError")
         /\ Len(Log) = 1
         /\ fs = fs0[Main] )

\* C2 witness: an update of a catalog package that is not installed was rejected
C2_Witness ==
    /\ Done(Main)
    /\ last[Main].op = "update"
    /\ Target \in Packages
    /\ ~is_installed(fs0[Main], Target)
    /\ last[Main].exc = Error("PackageNotInstalledError")

-----------------------------------------------------------------------------
IsUpdateStaging(e) == IsStagingBy(e, "update")
IsPreUpdate(e) == IsHook(e, "pre_update")
IsPostUpdate(e) == IsHook(e, "post_update")
\* the update replaced the package: it called remove (and then install) itself
IsReplacement(e) == e.ev = "call" /\ e.depth > 0 /\ e.op = "remove"

\* the order of an update's hooks and staging, and what a failed pre_update ends
UpdateOrder ==
    /\ \A i \in Events(IsUpdateStaging) :
           i > 1 /\ IsPreUpdate(Log[i - 1]) /\ Log[i - 1].ok
    /\ \A i \in Events(IsPostUpdate) :
           i > 1 /\ IsUpdateStaging(Log[i - 1]) /\ Log[i - 1].ok
    /\ \A i \in Events(IsPreUpdate) :
           ~Log[i].ok =>
               /\ i = Len(Log)
               /\ Done(Main)
               /\ last[Main].exc = Exc("HookFunctionError", "pre_update", "CalledProcessError")

FailedPreUpdate == \E i \in Events(IsPreUpdate) : ~Log[i].ok

\* C3 as stated: besides the order, a failed pre_update leaves the install
\* directory's content as it was when the update began.
C3_Original ==
    /\ UpdateOrder
    /\ (Called(Main) /\ FailedPreUpdate)
           => Content(fs, PkgDir(Target)) = Content(fs0[Main], PkgDir(Target))

\* C3 (amended): in an update, staging directly follows a successful pre_update
\* and post_update directly follows a successful staging; a failed pre_update is
\* the last thing the update does (no staging, no post_update) and the call fails
\* with HookFunctionError; the install directory's content is then as it was
\* when the update began, unless the update had replaced the package (remove and
\* install, on a confirmed prompt) before it ran the hook.
C3_UpdateOrder ==
    /\ UpdateOrder
    /\ (Called(Main) /\ FailedPreUpdate /\ Events(IsReplacement) = {})
           => fs = fs0[Main]

\* C3 witness: the update of an installed remote package asked whether to
\* replace it, was told no, and its pre_update hook then failed
C3_Witness ==
    /\ Done(Main)
    /\ last[Main].op = "update"
    /\ ~is_local(Target)
    /\ FailedPreUpdate
    /\ Events(IsReplacement) = {}
    /\ Events(LAMBDA e : e.ev = "input") # {}
    /\ last[Main].exc.kind = "HookFunctionError"
    /\ Content(fs, PkgDir(Target)) = {StaleFiles}

-----------------------------------------------------------------------------
IsPreRemove(e) == IsHook(e, "pre_remove")
IsRmtree(e) == e.ev = "fs" /\ e.what = "rmtree"

\* C4: the install directory is deleted only directly after a pre_remove hook
\* that succeeded; a failed pre_remove is the last thing the call does, the call
\* fails with HookFunctionError and the install directory is still there with
\* its content; a top-level remove whose pre_remove succeeded deletes the
\* directory next and ends without error with the directory gone.
C4_RemoveAfterHook ==
    /\ \A i \in Events(IsRmtree) :
           i > 1 /\ IsPreRemove(Log[i - 1]) /\ Log[i - 1].ok
    /\ \A i \in Events(IsPreRemove) :
           IF Log[i].ok
           THEN /\ i < Len(Log) => IsRmtree(Log[i + 1]) /\ Log[i + 1].ok
                /\ i = Len(Log) => At(Main, "remove", "rmtree")
                /\ (Done(Main) /\ TopCall(Main).op = "remove")
                       => /\ last[Main].exc = NoExc
                          /\ ~is_installed(fs, Target)
           ELSE /\ i = Len(Log)
                /\ Done(Main)
                /\ last[Main].exc = Exc("HookFunctionError", "pre_remove", "CalledProcessError")
                /\ is_installed(fs, Target)
                /\ fs = fs0[Main]

\* C4 witness: a remove whose hook succeeded has deleted the install directory
C4_Witness ==
    /\ Done(Main)
    /\ last[Main].op = "remove"
    /\ last[Main].exc = NoExc
    /\ is_installed(fs0[Main], Target)
    /\ ~is_installed(fs, Target)
    /\ \E i \in Events(IsPreRemove) : Log[i].ok

-----------------------------------------------------------------------------
\* the calls emerge itself made
DirectCalls == SelectSeq(Log, LAMBDA e : e.ev = "call" /\ e.depth = 1)

\* C5: a top-level emerge of a catalog package makes, as its one action, exactly
\* one call: install when the package's install directory did not exist when
\* emerge began, update when it did, with emerge's own identifier and options.
C5_EmergeDispatch ==
    ( /\ Called(Main)
      /\ TopCall(Main).op = "emerge"
      /\ Target # NoPackage )
    => LET c == TopCall(Main)
           op == IF is_installed(fs0[Main], Target) THEN "update" ELSE "install"
           started == Len(stack[Main]) = 1 /\ Top(Main).pc \in {"install", "update"}
       IN  DirectCalls = IF started THEN << >>
                         ELSE <<EvCall(Main, op, c.package_name, c.options, 1)>>

\* C5 witness: emerge of an installed package, with options that are not the
\* default ones, has run the update it dispatched to
C5_Witness ==
    /\ Done(Main)
    /\ last[Main].op = "emerge"
    /\ last[Main].exc = NoExc
    /\ last[Main].options = PearlOptions(TRUE, TRUE)
    /\ is_installed(fs0[Main], Target)
    /\ Len(DirectCalls) = 1
    /\ DirectCalls[1].op = "update"

-----------------------------------------------------------------------------
IsQuery(e) == e.ev = "exec" /\ e.what = "query"
IsAsk(e) == e.ev \in {"ask", "input"}
IsNestedCall(e) == e.ev = "call" /\ e.depth > 0
Execs == SelectSeq(Log, IsExec)
\* the remote-URL query printed the url the catalog has for the package
UrlUnchanged ==
    \E i \in Events(IsQuery) :
        Log[i].ok /\ Log[i].stdout = Target.url

\* C6 as stated: in a top-level update of an installed remote package whose
\* clone's remote URL is the package's configured url, there is no prompt and
\* no call of remove or install, and an update that ends without error has made
\* exactly four executor invocations: query, pre_update, staging, post_update.
C6_UnchangedUrlUpdate ==
    ( /\ Called(Main)
      /\ TopCall(Main).op = "update"
      /\ UrlUnchanged )
    => ( /\ Events(IsAsk) = {}
         /\ Events(IsNestedCall) = {}
         /\ (Done(Main) /\ last[Main].exc = NoExc)
                => /\ Len(Execs) = 4
                   /\ IsQuery(Execs[1])
                   /\ IsPreUpdate(Execs[2])
                   /\ IsUpdateStaging(Execs[3])
                   /\ IsPostUpdate(Execs[4]) )

-----------------------------------------------------------------------------
HookOf(e) == e.script[Len(e.script)].fn
HookOfOperation == [install |-> {"post_install"}, update |-> {"pre_update", "post_update"},
                    remove |-> {"pre_remove"}]
StagingErrors == {"CalledProcessError", "NotADirectoryError", "FileNotFoundError"}

\* C7: a hook invocation that fails is the last thing the call does, and the
\* call fails with HookFunctionError naming that hook (one of the running
\* operation's own) with the script's failure as its cause; a call that failed
\* with HookFunctionError ended on a failed hook invocation; a failed staging
\* step or remote-URL query ends the call with that step's own error.
C7_HookFailure ==
    /\ \A i \in Events(IsAnyHook) :
           /\ HookOf(Log[i]) \in HookOfOperation[Log[i].by]
           /\ ~Log[i].ok =>
                  /\ i = Len(Log)
                  /\ Done(Main)
                  /\ last[Main].exc =
                         Exc("HookFunctionError", HookOf(Log[i]), "CalledProcessError")
    /\ (Done(Main) /\ last[Main].exc.kind = "HookFunctionError")
           => IsAnyHook(Log[Len(Log)]) /\ ~Log[Len(Log)].ok
    /\ \A i \in Events(LAMBDA e : IsStaging(e) \/ IsQuery(e)) :
           ~Log[i].ok =>
               /\ i = Len(Log)
               /\ Done(Main)
               /\ last[Main].exc.kind \in StagingErrors
               /\ last[Main].exc = Error(last[Main].exc.kind)

\* C7 witness: an update whose staging succeeded failed in its post_update hook
C7_Witness ==
    /\ Done(Main)
    /\ last[Main].op = "update"
    /\ last[Main].exc = Exc("HookFunctionError", "post_update", "CalledProcessError")
    /\ Events(IsUpdateStaging) # {}

-----------------------------------------------------------------------------
\* the catalog read directly: its repository names, and its entry for a
\* repository and a short name
RepoNames == {Catalog[i].key : i \in 1..Len(Catalog)}
Entries(repo, name) ==
    {Catalog[i].value[j].value :
        <<i, j>> \in {x \in (1..Len(Catalog)) \X (1..2) :
                        /\ Catalog[x[1]].key = repo
                        /\ x[2] <= Len(Catalog[x[1]].value)
                        /\ Catalog[x[1]].value[x[2]].key = name}}
\* short and repository names an identifier may be made of (no separator)
NameParts == {<< >>, <<"a">>, <<"b">>, <<"q">>, <<"r">>, <<"s">>, <<"t">>}
FullName(repo, name) == repo \o <<"/">> \o name

\* the call stopped at resolution with an error of this kind
FailedAs(kind) ==
    /\ Done(Main)
    /\ last[Main].exc = Error(kind)
    /\ Len(Log) = 1
    /\ fs = fs0[Main]
\* the call went on with package p: its operations work on p, touch p's
\* directories only, and its precondition was checked on p
ResolvedAs(p) ==
    /\ \A k \in 1..Len(stack[Main]) : stack[Main][k].package = p
    /\ \A i \in Events(IsFs) : Log[i].path \in {PkgDir(p), PkgVarDir(p)}
    /\ \A i \in Events(IsAnyHook) : Log[i].script[1].path = PkgDir(p)
    /\ (Done(Main) /\ Len(Log) = 1) =>
           \/ /\ TopCall(Main).op = "install"
              /\ is_installed(fs0[Main], p)
              /\ last[Main].exc = Error("PackageAlreadyInstalledError")
           \/ /\ TopCall(Main).op \in {"update", "remove"}
              /\ ~is_installed(fs0[Main], p)
              /\ last[Main].exc = Error("PackageNotInstalledError")

\* C8: a call whose identifier is repo/name works on the catalog's entry for
\* that repository and that name and on no other package; when the catalog has
\* no repository repo the call fails with RepoDoesNotExistError, when the
\* repository has no package name it fails with PackageNotInRepoError, whatever
\* other repositories hold, and in both cases it has done nothing else: nothing
\* logged beyond the call, the filesystem as it was.
C8_FullNameResolution ==
    Called(Main) =>
        \A repo \in NameParts, name \in NameParts :
            TopCall(Main).package_name = FullName(repo, name) =>
                IF repo \notin RepoNames THEN FailedAs("RepoDoesNotExistError")
                ELSE IF Entries(repo, name) = {} THEN FailedAs("PackageNotInRepoError")
                ELSE \A p \in Entries(repo, name) : ResolvedAs(p)

\* C8 witness: an update of t/a, t not being a repository while a is a package
\* of others, one of them installed, was rejected with RepoDoesNotExistError
C8_Witness ==
    /\ Done(Main)
    /\ TopCall(Main).op = "update"
    /\ TopCall(Main).package_name = FullName(<<"t">>, <<"a">>)
    /\ last[Main].exc = Error("RepoDoesNotExistError")
    /\ is_installed(fs, PkgRA)

-----------------------------------------------------------------------------
\* the positions in the catalog of the repositories that have a package name
Holders(name) == {i \in 1..Len(Catalog) : Entries(Catalog[i].key, name) # {}}

\* C9: a call whose identifier has no separator works on the entry for that
\* short name of the first repository, in the catalog's order, that has one, and
\* fails with PackageNotInRepoError, having done nothing else, when none has.
C9_ShortNameResolution ==
    Called(Main) =>
        \A name \in NameParts :
            TopCall(Main).package_name = name =>
                IF Holders(name) = {} THEN FailedAs("PackageNotInRepoError")
                ELSE \A i \in Holders(name) :
                         (\A j \in Holders(name) : i <= j)
                             => \A p \in Entries(Catalog[i].key, name) : ResolvedAs(p)

\* C9 witness: install of a, which repositories r and s both have, has
\* installed r's package and not s's
C9_Witness ==
    /\ Done(Main)
    /\ TopCall(Main).op = "install"
    /\ TopCall(Main).package_name = <<"a">>
    /\ last[Main].exc = NoExc
    /\ Cardinality(Holders(<<"a">>)) = 2
    /\ ~is_installed(fs0[Main], PkgRA) /\ is_installed(fs, PkgRA)
    /\ ~is_installed(fs, PkgSA)

-----------------------------------------------------------------------------
IsInstallStaging(e) == IsStagingBy(e, "install")
IsMkdirOf(e, dir) == e.ev = "fs" /\ e.what = "mkdir" /\ e.path = dir
IsPostInstall(e) == IsHook(e, "post_install")

\* C10 as stated: from the start of install's staging onward, whether staging
\* fails or not, the package's data directory exists.
C10_Original ==
    Called(Main) =>
        /\ \A k \in 1..Len(stack[Main]) :
               (stack[Main][k].op = "install" /\ stack[Main][k].pc # "mkdir")
                   => is_dir(fs, PkgVarDir(Target))
        /\ Events(IsInstallStaging) # {} => is_dir(fs, PkgVarDir(Target))

\* C10 (amended): install creates the install directory directly before it
\* stages content, and the data directory only directly after staging succeeded,
\* before the post_install hook runs; when staging fails the call ends there and
\* the data directory exists only if it did before the call.
C10_DirectoriesCreated ==
    Called(Main) =>
        /\ \A i \in Events(IsInstallStaging) :
               /\ i > 1 /\ IsMkdirOf(Log[i - 1], PkgDir(Target))
               /\ IF Log[i].ok
                  THEN i < Len(Log) => IsMkdirOf(Log[i + 1], PkgVarDir(Target))
                  ELSE /\ i = Len(Log)
                       /\ Done(Main)
                       /\ is_installed(fs, Target)
                       /\ is_dir(fs, PkgVarDir(Target)) = is_dir(fs0[Main], PkgVarDir(Target))
        /\ \A i \in Events(LAMBDA e : IsMkdirOf(e, PkgVarDir(Target))) :
               i > 1 /\ IsInstallStaging(Log[i - 1]) /\ Log[i - 1].ok
        /\ \A i \in Events(IsPostInstall) :
               /\ i > 1 /\ IsMkdirOf(Log[i - 1], PkgVarDir(Target))
               /\ is_dir(fs, PkgVarDir(Target))

\* C10 witness: an install whose staging failed has left the install directory
\* and no data directory
C10_Witness ==
    /\ Done(Main)
    /\ last[Main].op = "install"
    /\ \E i \in Events(IsInstallStaging) : ~Log[i].ok
    /\ is_installed(fs, Target)
    /\ ~is_dir(fs, PkgVarDir(Target))

-----------------------------------------------------------------------------
IsClone(e) == e.ev = "exec" /\ e.what = "clone"

\* C11: a top-level install of a package that was not installed, ended without
\* error, leaves the install directory and the data directory existing and has
\* run post_install exactly once, as its last step, directly after the creation
\* of the data directory, itself directly after the successful staging; for a
\* remote package its executor invocations are exactly the clone and then
\* post_install; an install whose staging failed has run no post_install.
C11_InstallCompletes ==
    ( /\ Called(Main)
      /\ TopCall(Main).op = "install"
      /\ Target # NoPackage
      /\ ~is_installed(fs0[Main], Target) )
    => /\ (Done(Main) /\ last[Main].exc = NoExc) =>
              /\ is_dir(fs, <<<<"home">>, <<"packages">>, Target.repo_name, Target.name>>)
              /\ is_dir(fs, <<<<"home">>, <<"var">>, Target.repo_name, Target.name>>)
              /\ Cardinality(Events(IsPostInstall)) = 1
              /\ Len(Log) = 5
              /\ IsInstallStaging(Log[3]) /\ Log[3].ok
              /\ IsMkdirOf(Log[4], PkgVarDir(Target))
              /\ IsPostInstall(Log[5]) /\ Log[5].ok
              /\ ~is_local(Target) =>
                     /\ Len(Execs) = 2
                     /\ IsClone(Execs[1])
                     /\ IsPostInstall(Execs[2])
       /\ (\E i \in Events(IsInstallStaging) : ~Log[i].ok)
              => Events(IsPostInstall) = {}
       /\ Cardinality(Events(IsPostInstall)) <= 1

\* C11 witness: a remote package that was not installed has been installed
C11_Witness ==
    /\ Done(Main)
    /\ last[Main].op = "install"
    /\ last[Main].exc = NoExc
    /\ ~is_local(Target)
    /\ ~is_installed(fs0[Main], Target)
    /\ is_installed(fs, Target)
    /\ Len(Execs) = 2

-----------------------------------------------------------------------------
\* what staging puts in the install directory of package p
Staged(p) == IF is_local(p) THEN fs[Path(p.url)] ELSE UpstreamFiles
\* a post_install or post_update hook that failed
IsFailedPostHook(e) == (IsPostInstall(e) \/ IsPostUpdate(e)) /\ ~e.ok

\* a call that ended on a failed post_install or post_update hook left the
\* install directory with the content staging had put there
NoRollback ==
    \A i \in Events(IsFailedPostHook) :
        /\ i = Len(Log)
        /\ Done(Main)
        /\ IF IsPostInstall(Log[i])
           THEN IsInstallStaging(Log[i - 2]) /\ Log[i - 2].ok
           ELSE IsUpdateStaging(Log[i - 1]) /\ Log[i - 1].ok
        /\ is_installed(fs, Target)
        /\ fs[PkgDir(Target)] = Staged(Target)

\* the caller's moving on to its next call leaves the filesystem alone, and a
\* call on a package whose install directory exists treats it as installed
ObservedInstalled ==
    /\ (Done(Main) /\ last'[Main] = NoOutcome) => fs' = fs
    /\ (Quiescent(Main) /\ log'[Main] # <<>>) =>
           LET call == log'[Main][1]
               p == Named(call.package_name)
           IN  (p # NoPackage /\ is_installed(fs, p)) =>
                   CASE call.op = "install" ->
                            /\ stack'[Main] = <<>>
                            /\ last'[Main].exc = Error("PackageAlreadyInstalledError")
                     [] call.op = "emerge" ->
                            /\ stack'[Main] # <<>>
                            /\ stack'[Main][1].pc = "update"
                     [] OTHER ->
                            /\ stack'[Main] # <<>>
                            /\ stack'[Main][1].op = call.op

\* C12: when staging succeeded and the hook after it (post_install in install,
\* post_update in update) fails, the call ends there with the install directory
\* and the staged content in place; the filesystem stays so until the next call,
\* and every call on a package whose install directory exists treats it as
\* installed (install is rejected, update and remove are accepted, emerge
\* updates).
C12_NoRollback == [](NoRollback) /\ [][ObservedInstalled]_vars

\* C12 witness: the install of a package that was not installed staged its
\* content and then failed in post_install
C12_Witness ==
    /\ Done(Main)
    /\ last[Main].op = "install"
    /\ last[Main].exc = Exc("HookFunctionError", "post_install", "CalledProcessError")
    /\ ~is_installed(fs0[Main], Target)
    /\ is_installed(fs, Target)
    /\ fs[PkgDir(Target)] = Staged(Target)
    /\ Staged(Target) # {}

-----------------------------------------------------------------------------
\* C13 as stated, its first part: when the caller's previous call was an install
\* or update of P that passed its precondition and then failed, and its next
\* call is the same operation on P, that call is accepted: it passes its
\* precondition and goes on to its steps (staging among them).
C13_RetryAccepted ==
    [][LET call == log'[Main][1]
       IN  ( /\ Quiescent(Main)
             /\ previous[Main].op \in {"install", "update"}
             /\ previous[Main].package # NoPackage
             /\ previous[Main].failed
             /\ previous[Main].installed = (previous[Main].op = "update")
             /\ log'[Main] # <<>>
             /\ call.op = previous[Main].op
             /\ Named(call.package_name) = previous[Main].package )
           => ( /\ stack'[Main] # <<>>
                /\ stack'[Main][1].op = call.op
                /\ last'[Main] = NoOutcome )]_vars

-----------------------------------------------------------------------------
IsPull(e) == e.ev = "exec" /\ e.what = "pull"
IsPrompt(e) == e.ev = "ask"
NestedCalls == SelectSeq(Log, IsNestedCall)
Inputs == SelectSeq(Log, LAMBDA e : e.ev = "input")
\* the user's answer to the prompt, once given: the line last typed
Answered(lines) == Inputs # << >> /\ Inputs[Len(Inputs)].typed \in lines
AnsweredYes == Answered({<<"y">>})
AnsweredNo == Answered({<<"n">>, << >>})
\* the remote-URL query printed a url other than the one the catalog has
UrlChanged ==
    \E i \in Events(IsQuery) :
        Log[i].ok /\ Log[i].stdout # Target.url
\* the calls a replacement makes: remove, then install, of the call's identifier
IsCallFor(e, op) ==
    e.op = op /\ e.package_name = TopCall(Main).package_name /\ e.depth = 1

\* C14: in a top-level update of an installed remote package whose clone's
\* remote URL differs from the package's url, the user is asked once; answered
\* yes, the update calls remove once and then install once for its own
\* identifier and nothing else, before pre_update, and an update that ends
\* without error has run query, pre_remove, clone, post_install, pre_update,
\* pull, post_update; answered no, it calls neither and an update that ends
\* without error has run query, pre_update, pull, post_update.
C14_ChangedUrlUpdate ==
    ( /\ Called(Main)
      /\ TopCall(Main).op = "update"
      /\ UrlChanged )
    => /\ Cardinality(Events(IsPrompt)) <= 1
       /\ (Inputs # << >> \/ Events(IsPreUpdate) # {}) => Cardinality(Events(IsPrompt)) = 1
       /\ Events(IsPreUpdate) # {} => AnsweredYes \/ AnsweredNo
       /\ AnsweredYes =>
              /\ Len(NestedCalls) <= 2
              /\ Len(NestedCalls) >= 1 => IsCallFor(NestedCalls[1], "remove")
              /\ Len(NestedCalls) = 2 => IsCallFor(NestedCalls[2], "install")
              /\ Events(IsPreUpdate) # {} => Len(NestedCalls) = 2
              /\ (Done(Main) /\ last[Main].exc = NoExc) =>
                     /\ Len(Execs) = 7
                     /\ IsQuery(Execs[1])
                     /\ IsPreRemove(Execs[2])
                     /\ IsClone(Execs[3])
                     /\ IsPostInstall(Execs[4])
                     /\ IsPreUpdate(Execs[5])
                     /\ IsPull(Execs[6])
                     /\ IsPostUpdate(Execs[7])
       /\ ~AnsweredYes =>
              /\ NestedCalls = << >>
              /\ (Done(Main) /\ last[Main].exc = NoExc) =>
                     /\ AnsweredNo
                     /\ Len(Execs) = 4
                     /\ IsQuery(Execs[1])
                     /\ IsPreUpdate(Execs[2])
                     /\ IsPull(Execs[3])
                     /\ IsPostUpdate(Execs[4])

\* C14 witness: an update that found the URL changed and was told yes has
\* replaced the package and run to its end
C14_Witness ==
    /\ Done(Main)
    /\ last[Main].op = "update"
    /\ last[Main].exc = NoExc
    /\ UrlChanged
    /\ AnsweredYes
    /\ Len(NestedCalls) = 2
    /\ Len(Execs) = 7

-----------------------------------------------------------------------------
\* C15 as stated: a top-level update called with no_confirm set, finding the
\* remote URL changed, reads no answer from the user and calls neither remove
\* nor install.
C15_NoConfirmUpdate ==
    ( /\ Called(Main)
      /\ TopCall(Main).op = "update"
      /\ TopCall(Main).options.no_confirm
      /\ UrlChanged )
    => ( /\ Inputs = << >>
         /\ NestedCalls = << >> )

-----------------------------------------------------------------------------
\* C16 as stated: every call of an engine operation made by an engine operation
\* (by emerge, by update when it replaces the package) carries the options of
\* the caller's call, and every operation in progress still has them.
C16_OptionsPassedOn ==
    Called(Main) =>
        /\ \A i \in Events(IsNestedCall) : Log[i].options = TopCall(Main).options
        /\ \A k \in 1..Len(stack[Main]) : stack[Main][k].options = TopCall(Main).options

-----------------------------------------------------------------------------
\* a script handed to the executor for staging or for a hook
IsStagingOrHookExec(e) == e.ev = "exec" /\ e.what \in {"clone", "pull", "hook"}
\* the call of the operation that made event i: the latest call of it before i
CallOf(i) ==
    LET calls == {j \in 1..(i - 1) : Log[j].ev = "call" /\ Log[j].op = Log[i].by}
    IN  Log[CHOOSE j \in calls : \A k \in calls : k <= j]

\* C17: every script an operation hands to the executor for staging (clone,
\* pull) or for a hook gets the empty string as stdin when the options that
\* operation was called with have no_confirm set, and no input (stdin left
\* attached) when they have not; so for install, update and remove alike.
C17_StdinFollowsNoConfirm ==
    \A i \in Events(IsStagingOrHookExec) :
        /\ Log[i].by \in {"install", "update", "remove"}
        /\ Log[i].input = IF CallOf(i).options.no_confirm THEN "" ELSE "None"

\* C17 witness: an update called with no_confirm has pulled with the empty
\* string as stdin
C17_Witness ==
    /\ Done(Main)
    /\ last[Main].op = "update"
    /\ last[Main].options.no_confirm
    /\ last[Main].exc = NoExc
    /\ \E i \in Events(IsPull) : Log[i].input = ""
    /\ \E i \in Events(IsPostUpdate) : Log[i].input = ""

-----------------------------------------------------------------------------
\* the lines of a hook script that give a variable a value formatted in by _run
PackageVariables(script) ==
    {script[k] : k \in {j \in 1..Len(script) : script[j].line = "assign"}}

-----------------------------------------------------------------------------
\* the part of the running script that _run composed: what follows the header
HookPart == SubSeq(sh.script, Len(sh.script) - 11, Len(sh.script))
Kinds(lines) == [k \in 1..Len(lines) |-> lines[k].line]
\* install.sh exists and defines the hook _run was given
Overridden ==
    /\ is_file(fs, PkgDir(sh.args.package) \o << <<"pearl-config">>, <<"install.sh">> >>)
    /\ sh.args.script \in sh.defines

\* C19: the script _run composes for a hook is, in order, four variable
\* definitions, the four default no-op hook functions, the conditional source
\* of the package's pearl-config/install.sh, a cd to the package's install
\* directory (not to the home) and one call, of the requested hook.  Followed
\* by bash it calls exactly one function, the requested hook, in the install
\* directory: the package's own when install.sh exists and defines it, else
\* the default; and it fails only if the install directory is missing or the
\* package's own function fails.
C19_HookScript ==
    sh.status # "none" =>
        /\ Len(sh.script) = Len(BASH_SCRIPT_HEADER) + 12
        /\ Kinds(HookPart) =
               <<"assign", "assign", "assign", "assign",
                 "define_noop", "define_noop", "define_noop", "define_noop",
                 "assign_under", "source_if_file", "cd", "call">>
        /\ {HookPart[k].fn : k \in 5..8} =
               {"post_install", "pre_update", "post_update", "pre_remove"}
        /\ HookPart[9].base = "PEARL_PKGDIR"
        /\ HookPart[9].rel = << <<"pearl-config">>, <<"install.sh">> >>
        /\ HookPart[10].var = HookPart[9].var
        /\ HookPart[11].var = "PEARL_PKGDIR"
        /\ HookPart[12].fn = sh.args.script
        /\ Len(sh.called) <= 1
        /\ (sh.status = "done" \/ sh.called # << >>) =>
               sh.called = << [fn |-> sh.args.script,
                               body |-> IF Overridden THEN "package" ELSE "noop",
                               cwd |-> PkgDir(sh.args.package)] >>
        /\ sh.status = "failed" =>
               \/ ~is_dir(fs, PkgDir(sh.args.package))
               \/ sh.called # << >> /\ Overridden

\* C19 witness: a script has run to its end having called the requested hook
\* as install.sh defines it, another script the default one
C19_Witness ==
    /\ sh.status = "done"
    /\ Overridden
    /\ sh.defines # {sh.args.script}
    /\ sh.called = << [fn |-> sh.args.script, body |-> "package",
                       cwd |-> PkgDir(sh.args.package)] >>

-----------------------------------------------------------------------------
\* what list_packages printed, two lines a package
Printed == SelectSeq(Log, LAMBDA e : e.ev = "print")
\* text contains word, letter case ignored
ContainsWord(text, word) ==
    \E i \in 0..(Len(text) - Len(word)) :
        \A j \in 1..Len(word) : lower(text[i + j]) = lower(word[j])
\* the packages a pattern selects: all for `.*`, else those whose repo/name or
\* description contains the pattern's word
Selected(pattern) ==
    {p \in DescribedPackages :
        \/ pattern = <<".", "*">>
        \/ ContainsWord(p.repo_name \o <<"/">> \o p.name, pattern)
        \/ ContainsWord(p.description, pattern)}
\* the package a printed first line names
Listed(line) ==
    CHOOSE p \in DescribedPackages : p.repo_name = line.reponame /\ p.name = line.package

\* C20: a list_packages call leaves the filesystem as it was, and when it has
\* returned it has printed, for exactly the packages whose repo/name or
\* description contains the pattern (letter case ignored; every package for
\* `.*`), each once, a line naming the package followed by a line with its
\* description, the lines of every package that is not installed before those
\* of every installed one, the installed ones marked.
C20_ListPackages ==
    (Called(Main) /\ TopCall(Main).op = "list") =>
        /\ fs = fs0[Main]
        /\ Done(Main) =>
               LET n == Cardinality(Selected(TopCall(Main).package_name))
                   First(k) == Printed[2 * k - 1].text
                   Second(k) == Printed[2 * k].text
               IN  /\ last[Main].exc = NoExc
                   /\ Len(Printed) = 2 * n
                   /\ {Listed(First(k)) : k \in 1..n} = Selected(TopCall(Main).package_name)
                   /\ \A k \in 1..n :
                          /\ Second(k) = [description |-> Listed(First(k)).description]
                          /\ First(k).installed =
                                 IF is_dir(fs, <<<<"home">>, <<"packages">>,
                                                 First(k).reponame, First(k).package>>)
                                 THEN "[installed]" ELSE ""
                   /\ \A j, k \in 1..n :
                          (First(j).installed # "" /\ First(k).installed = "") => k < j

\* C20 witness: pattern p over r/pa (installed), r/pb and s/pc (not installed)
\* has listed all three, r/pa last
C20_Witness ==
    /\ Done(Main)
    /\ last[Main].op = "list"
    /\ last[Main].package_name = <<"p">>
    /\ is_installed(fs, PkgPA) /\ ~is_installed(fs, PkgPB) /\ ~is_installed(fs, PkgPC)
    /\ Len(Printed) = 6
    /\ Listed(Printed[5].text) = PkgPA

-----------------------------------------------------------------------------
\* a step of the call that failed: a script the executor ran, or a filesystem call
IsFailedStep(e) == (IsExec(e) \/ IsFs(e)) /\ ~e.ok

\* an emerge call that has ended: never rejected for the installed state; ended
\* normally, the package is installed; ended otherwise, the identifier named no
\* package or a script or filesystem step of it failed
EmergeOutcome ==
    (Called(Main) /\ TopCall(Main).op = "emerge" /\ Done(Main)) =>
        /\ last[Main].exc.kind \notin {"PackageAlreadyInstalledError",
                                       "PackageNotInstalledError"}
        /\ last[Main].exc = NoExc => (Target # NoPackage /\ is_installed(fs, Target))
        /\ last[Main].exc # NoExc =>
               \/ Target = NoPackage
               \/ /\ Events(IsFailedStep) = {Len(Log)}
                  /\ last[Main].exc.kind \in
                         {"HookFunctionError", "CalledProcessError", "NotADirectoryError"}

\* the emerge of P that follows an emerge of P that ended normally finds P
\* installed, its local source still a directory, and goes on to update it
SecondEmerge ==
    LET call == log'[Main][1]
        p == previous[Main].package
    IN  ( /\ Quiescent(Main)
          /\ previous[Main].op = "emerge"
          /\ p # NoPackage
          /\ ~previous[Main].failed
          /\ log'[Main] # <<>>
          /\ call.op = "emerge"
          /\ Named(call.package_name) = p )
        => ( /\ is_installed(fs, p)
             /\ is_local(p) => is_dir(fs, Path(p.url))
             /\ stack'[Main] # <<>>
             /\ stack'[Main][1].op = "emerge"
             /\ stack'[Main][1].pc = "update" )

\* C21: emerge(P) is never rejected with PackageAlreadyInstalledError or
\* PackageNotInstalledError; an emerge(P) that ends normally leaves P installed,
\* whatever P's state before; the emerge(P) that follows it finds P installed
\* and updates it, and, like every emerge, fails only when a script or
\* filesystem step of it fails, and otherwise ends normally with P installed.
C21_EmergeIdempotent == [](EmergeOutcome) /\ [][SecondEmerge]_vars

\* C21 witness: an emerge of a package that was already installed, as an
\* emerge before it leaves it, has updated it and ended normally
C21_Witness ==
    /\ Done(Main)
    /\ last[Main].op = "emerge"
    /\ last[Main].exc = NoExc
    /\ is_installed(fs0[Main], Target)
    /\ is_installed(fs, Target)
    /\ \E i \in Events(IsPostUpdate) : Log[i].ok

-----------------------------------------------------------------------------
\* the directories at or under dir, each as its path below dir with its files
Tree(f, dir) ==
    {<<SubSeq(q, Len(dir) + 1, Len(q)), f[q]>> : q \in {x \in DOMAIN f : IsPrefix(dir, x)}}
\* everything that is not at or under dir
Outside(f, dir) == [q \in {x \in DOMAIN f : ~IsPrefix(dir, x)} |-> f[q]]
IsLocalStaging(e) == e.ev = "fs" /\ e.what = "check_and_copy"

\* C22: each local staging step, of install and of update alike: when the
\* package url is a directory the step succeeds and the install directory then
\* holds what the source holds and nothing else, the rest of the filesystem
\* being as before; when the url is not a directory the step fails with
\* NotADirectoryError, ending the call, and the filesystem, the install
\* directory with its content included, is as before.
C22_LocalStaging ==
    [][LET e == log'[Main][Len(log'[Main])]
           p == Top(Main).package
           src == Path(p.url)
           dst == PkgDir(p)
       IN  ( /\ ~Idle(Main)
             /\ Len(log'[Main]) = Len(log[Main]) + 1
             /\ IsLocalStaging(e) )
           => /\ Top(Main).op \in {"install", "update"}
              /\ e.by = Top(Main).op
              /\ e.path = dst
              /\ is_dir(fs, dst)
              /\ e.ok = is_dir(fs, src)
              /\ e.ok => /\ Tree(fs', dst) = Tree(fs, src)
                         /\ Outside(fs', dst) = Outside(fs, dst)
                         /\ last'[Main].exc = NoExc
              /\ ~e.ok => /\ fs' = fs
                          /\ stack'[Main] = <<>>
                          /\ last'[Main].exc = Error("NotADirectoryError")]_vars

\* C22 witness: the local staging of an update has replaced the outdated
\* content of the install directory by the content of the source
C22_Witness ==
    /\ Called(Main)
    /\ Log # <<>>
    /\ IsLocalStaging(Log[Len(Log)])
    /\ Log[Len(Log)].ok
    /\ Log[Len(Log)].by = "update"
    /\ Content(fs0[Main], PkgDir(Target)) = {StaleFiles}
    /\ Content(fs, PkgDir(Target)) = {SourceFiles}
    /\ StaleFiles \cap SourceFiles = {}

-----------------------------------------------------------------------------
\* how many times word occurs in text
RECURSIVE Occurrences(_, _)
Occurrences(word, text) ==
    IF Len(text) < Len(word) THEN 0
    ELSE (IF SubSeq(text, 1, Len(word)) = word THEN 1 ELSE 0)
         + Occurrences(word, Tail(text))

\* C23: when init_pearl has returned, each of the five startup files holds its
\* activation string exactly once, and applying the string to the file again
\* would leave the file as it is.
C23_ApplyIdempotent ==
    (Done(Main) /\ last[Main].op = "init") =>
        \A i \in 1..Len(Activations) :
            LET a == Activations[i]
            IN  /\ exists(rc, a.filename)
                /\ Occurrences(a.line, rc[a.filename]) = 1
                /\ apply_content(a.line, rc[a.filename]) = rc[a.filename]

-----------------------------------------------------------------------------
IsUnapply(e) == e.ev = "rc" /\ e.what = "unapply"
IsRootUpdate(e) == IsExec(e) /\ e.by = "update_pearl"
IsHomeRmtree(e) == e.ev = "fs" /\ e.by = "remove_pearl" /\ e.what = "rmtree"

\* C24: a remove_pearl or update_pearl call made with no_confirm set asks
\* nothing and reads nothing from the user, and has each confirmation answered
\* by the default of its prompt: remove_pearl, whose three prompts default to
\* no, removes no package, unapplies no activation string and leaves the home
\* in place; update_pearl, whose prompt defaults to yes, updates the codebase.
C24_NoConfirmDefaults ==
    ( /\ Called(Main)
      /\ TopCall(Main).op \in {"remove_pearl", "update_pearl"}
      /\ TopCall(Main).options.no_confirm )
    => /\ Events(IsAsk) = {}
       /\ TopCall(Main).op = "remove_pearl" =>
              /\ \A i \in Events(IsNestedCall) : Log[i].op # "remove"
              /\ Events(IsUnapply) = {}
              /\ Events(IsHomeRmtree) = {}
              /\ is_dir(fs, Home)
       /\ (TopCall(Main).op = "update_pearl" /\ Done(Main)) =>
              Events(IsRootUpdate) # {}

-----------------------------------------------------------------------------
IsInput(e) == e.ev = "input"

\* C26: a remove_pearl call made without no_confirm, the user answering every
\* prompt so far with an empty line, has removed no package, unapplied no
\* activation string and left the filesystem, the home included, as it was.
C26_EmptyAnswersKeepAll ==
    ( /\ Called(Main)
      /\ TopCall(Main).op = "remove_pearl"
      /\ ~TopCall(Main).options.no_confirm
      /\ \A i \in Events(IsInput) : Log[i].typed = << >> )
    => /\ Events(IsNestedCall) = {}
       /\ Events(IsUnapply) = {}
       /\ Events(IsHomeRmtree) = {}
       /\ fs = fs0[Main]
       /\ is_dir(fs, Home)

-----------------------------------------------------------------------------
\* caller t's install has passed its precondition and not yet created the directory
BeforeMkdir(t) == At(t, "install", "mkdir") /\ Len(stack[t]) = 1
\* caller t's call did staging and ran post_install, both with success
StagedAndHooked(t) ==
    /\ \E i \in 1..Len(log[t]) : IsInstallStaging(log[t][i]) /\ log[t][i].ok
    /\ \E i \in 1..Len(log[t]) : IsPostInstall(log[t][i]) /\ log[t][i].ok

\* C25: nothing keeps two callers apart: while one caller's install of a
\* package is between its not-installed check and the creation of the install
\* directory, an install of the same package by the other caller passes the
\* check as well; and an install that has passed the check never ends with
\* PackageAlreadyInstalledError, whatever the other caller does meanwhile.
C25_NoLocking ==
    /\ [](\A t \in Threads :
              (Done(t) /\ last[t].exc = Error("PackageAlreadyInstalledError"))
                  => Len(log[t]) = 1)
    /\ [][\A t, u \in Threads :
              ( /\ t # u
                /\ BeforeMkdir(u)
                /\ ~is_installed(fs, Top(u).package)
                /\ Quiescent(t)
                /\ log'[t] # <<>>
                /\ Named(log'[t][1].package_name) = Top(u).package )
              => ( /\ stack'[t] # <<>>
                   /\ stack'[t][1].op = "install"
                   /\ stack'[t][1].pc = "mkdir"
                   /\ stack'[u] = stack[u] )]_vars

\* C25 witness: both callers installed the same package, each having found it
\* not installed, and both did staging and ran post_install; neither failed
C25_Witness ==
    \E p \in Packages :
        \A t \in Threads :
            /\ Done(t)
            /\ last[t].op = "install"
            /\ Named(last[t].package_name) = p
            /\ last[t].exc = NoExc
            /\ ~is_installed(fs0[t], p)
            /\ StagedAndHooked(t)

-----------------------------------------------------------------------------
\* C27: an install call that ended on a failed staging step (the local source
\* not a directory, or the clone failing) leaves the package not installed: its
\* install directory does not exist.
C27_FailedStagingNotInstalled ==
    ( /\ Called(Main)
      /\ Done(Main)
      /\ TopCall(Main).op = "install"
      /\ \E i \in Events(IsInstallStaging) : ~Log[i].ok )
    => /\ last[Main].exc.kind \in {"NotADirectoryError", "CalledProcessError"}
       /\ ~is_installed(fs, Target)

-----------------------------------------------------------------------------
\* a step of install that failed: its staging or its post_install hook
IsFailedInstallStep(e) == (IsInstallStaging(e) \/ IsPostInstall(e)) /\ ~e.ok
\* update's own hooks and staging
IsUpdateStep(e) == IsPreUpdate(e) \/ IsUpdateStaging(e) \/ IsPostUpdate(e)

\* C28: in an update that replaces the package (it called remove_package after
\* the prompt), a failed pre_remove hook is the last thing the call does: the
\* update ends with the HookFunctionError of pre_remove, install_package was
\* not called, the filesystem, and with it the install directory and its
\* content, is as when the update began, and none of pre_update, staging and
\* post_update ran. Likewise a failed step of the nested install is the last
\* thing the call does: the update ends with that failure and none of
\* pre_update, staging and post_update ran.
C28_ReplacementFailure ==
    (Called(Main) /\ TopCall(Main).op = "update" /\ Events(IsReplacement) # {}) =>
        /\ \A i \in Events(IsPreRemove) :
               ~Log[i].ok =>
                   /\ i = Len(Log)
                   /\ Done(Main)
                   /\ last[Main].exc =
                          Exc("HookFunctionError", "pre_remove", "CalledProcessError")
                   /\ \A j \in Events(IsNestedCall) : Log[j].op # "install"
                   /\ Events(IsRmtree) = {}
                   /\ fs = fs0[Main]
                   /\ is_installed(fs, Target)
                   /\ Events(IsUpdateStep) = {}
        /\ \A i \in Events(IsFailedInstallStep) :
               /\ i = Len(Log)
               /\ Done(Main)
               /\ last[Main].exc \in
                      {Error("CalledProcessError"),
                       Exc("HookFunctionError", "post_install", "CalledProcessError")}
               /\ Events(IsUpdateStep) = {}

\* C28 witness: an update asked, was told to replace the package, and ended on
\* the failed pre_remove hook of the remove it called
C28_Witness ==
    /\ Done(Main)
    /\ last[Main].op = "update"
    /\ AnsweredYes
    /\ Len(NestedCalls) = 1
    /\ NestedCalls[1].op = "remove"
    /\ IsPreRemove(Log[Len(Log)])
    /\ ~Log[Len(Log)].ok
    /\ last[Main].exc = Exc("HookFunctionError", "pre_remove", "CalledProcessError")
    /\ Content(fs, PkgDir(Target)) = {StaleFiles}

-----------------------------------------------------------------------------
\* C29: a call of a package operation whose identifier names no catalog package
\* ends, for every identifier, with RepoDoesNotExistError or with
\* PackageNotInRepoError, and a call that ends with any other failure had its
\* identifier resolved to a catalog package.
C29_ResolutionFailures ==
    (Called(Main) /\ Done(Main) /\ TopCall(Main).op \in {"install", "update", "remove", "emerge"}) =>
        IF Target \in Packages
        THEN last[Main].exc.kind \notin {"RepoDoesNotExistError", "PackageNotInRepoError",
                                         "ValueError"}
        ELSE last[Main].exc \in {Error("RepoDoesNotExistError"),
                                 Error("PackageNotInRepoError")}

-----------------------------------------------------------------------------
\* the deletion step of remove_package, done
IsRemoveRmtree(e) == IsRmtree(e) /\ e.by = "remove" /\ e.ok

\* the deletion step of a remove deletes the install directory and nothing else
RemoveFrame ==
    LET e == log'[Main][Len(log'[Main])]
        p == Top(Main).package
    IN  ( /\ ~Idle(Main)
          /\ Len(log'[Main]) = Len(log[Main]) + 1
          /\ IsRemoveRmtree(e) )
        => /\ e.path = PkgDir(p)
           /\ ~is_dir(fs', PkgDir(p))
           /\ Outside(fs', PkgDir(p)) = Outside(fs, PkgDir(p))
           /\ Content(fs', PkgVarDir(p)) = Content(fs, PkgVarDir(p))

\* a remove call leaves everything outside the install directory as it was; an
\* install begun on a package that is not installed and has a data directory
\* keeps that directory and its content throughout, and fails only when its
\* staging or its hook fails
VarDirKept ==
    Called(Main) =>
        /\ TopCall(Main).op = "remove" =>
               Outside(fs, PkgDir(Target)) = Outside(fs0[Main], PkgDir(Target))
        /\ ( /\ TopCall(Main).op = "install"
             /\ Target # NoPackage
             /\ ~is_installed(fs0[Main], Target)
             /\ is_dir(fs0[Main], PkgVarDir(Target)) )
           => /\ Content(fs, PkgVarDir(Target)) = Content(fs0[Main], PkgVarDir(Target))
              /\ (Done(Main) /\ last[Main].exc # NoExc) =>
                     Events(IsFailedInstallStep) = {Len(Log)}

\* C30: remove(P) deletes P's install directory and nothing else: P's data
\* directory and what it holds are as before; an install of P that finds the
\* data directory of an earlier installation keeps it with its content and is
\* not failed by it.
C30_RemoveKeepsVarDir == [](VarDirKept) /\ [][RemoveFrame]_vars

\* C30 witness: a remove has ended normally, the install directory is gone and
\* the data directory still holds what it held
C30_Witness ==
    /\ Done(Main)
    /\ last[Main].op = "remove"
    /\ last[Main].exc = NoExc
    /\ ~is_installed(fs, Target)
    /\ Content(fs0[Main], PkgVarDir(Target)) = {VarFiles}
    /\ Content(fs, PkgVarDir(Target)) = {VarFiles}

-----------------------------------------------------------------------------
\* the paths that exist in only one of two filesystems or hold different files
Changed(f, g) ==
    {q \in DOMAIN f \cup DOMAIN g : Content(f, q) # Content(g, q)}
\* path q is package p's install or data directory, or lies under one of them
KeyedBy(q, p) == IsPrefix(PkgDir(p), q) \/ IsPrefix(PkgVarDir(p), q)

\* C31: whatever a call of install, update, remove or emerge on package P has
\* done so far, ended or not, failed or not, every directory it created,
\* deleted or changed is P's install directory, P's data directory or lies
\* under one of them, or is a parent directory it created for them; the install
\* and data directory of every other catalog package exist or not, and hold
\* what they held, as when the call began. A call that names no package changes
\* nothing.
C31_OnlyOwnDirectories ==
    (Called(Main) /\ TopCall(Main).op \in {"install", "update", "remove", "emerge"}) =>
        IF Target = NoPackage THEN fs = fs0[Main]
        ELSE /\ \A q \in Changed(fs0[Main], fs) :
                    \/ KeyedBy(q, Target)
                    \/ /\ IsPrefix(q, PkgDir(Target)) \/ IsPrefix(q, PkgVarDir(Target))
                       /\ ~is_dir(fs0[Main], q)
                       /\ Content(fs, q) = {{}}
             /\ \A other \in Packages \ {Target} :
                    /\ Content(fs, PkgDir(other)) = Content(fs0[Main], PkgDir(other))
                    /\ Content(fs, PkgVarDir(other)) = Content(fs0[Main], PkgVarDir(other))

\* C31 witness: a remove of one package has deleted its install directory while
\* the other package was installed, and that one's directories are as before
C31_Witness ==
    /\ Done(Main)
    /\ last[Main].op = "remove"
    /\ last[Main].exc = NoExc
    /\ Target # NoPackage
    /\ Changed(fs0[Main], fs) # {}
    /\ \E other \in Packages \ {Target} :
           /\ Content(fs0[Main], PkgDir(other)) = {StaleFiles}
           /\ Content(fs, PkgDir(other)) = {StaleFiles}
           /\ Content(fs, PkgVarDir(other)) = {VarFiles}

-----------------------------------------------------------------------------
\* the remove_package calls remove_pearl made so far
Removals == SelectSeq(Log, LAMBDA e : IsNestedCall(e) /\ e.op = "remove")
\* the catalog packages installed when the call began, by repo/name
InstalledAtStart ==
    {p.repo_name \o <<"/">> \o p.name : p \in {x \in Packages : is_installed(fs0[Main], x)}}

\* C32: a remove_pearl call made with no_confirm set calls remove_package only
\* for packages that are installed, each at most once, with its own options,
\* and never meets PackageNotInstalledError; the home directory is deleted only
\* after every installed package was removed, its pre_remove hook having run
\* with success before; a failed pre_remove hook is the last thing the call
\* does, the home directory staying in place; and a call that ends normally
\* has removed every package that was installed and then the home directory.
C32_RemovePearlNoConfirm ==
    ( /\ Called(Main)
      /\ TopCall(Main).op = "remove_pearl"
      /\ TopCall(Main).options.no_confirm )
    => /\ \A i \in 1..Len(Removals) :
              /\ Removals[i].package_name \in InstalledAtStart
              /\ Removals[i].options = TopCall(Main).options
              /\ Removals[i].depth = 1
              /\ \A j \in 1..Len(Removals) :
                     Removals[j].package_name = Removals[i].package_name => j = i
       /\ \A i \in Events(IsNestedCall) : Log[i].op = "remove"
       /\ last[Main].exc.kind # "PackageNotInstalledError"
       /\ \A i \in Events(IsPreRemove) :
              ~Log[i].ok =>
                  /\ i = Len(Log)
                  /\ Done(Main)
                  /\ last[Main].exc =
                         Exc("HookFunctionError", "pre_remove", "CalledProcessError")
                  /\ is_dir(fs, Home)
       /\ \A i \in Events(IsHomeRmtree) :
              /\ \A j \in Events(IsPreRemove) : j < i /\ Log[j].ok
              /\ {Removals[k].package_name : k \in 1..Len(Removals)} = InstalledAtStart
              /\ Cardinality(Events(IsPreRemove)) = Len(Removals)
              /\ Cardinality(Events(IsRemoveRmtree)) = Len(Removals)
       /\ (Done(Main) /\ last[Main].exc = NoExc) =>
              /\ Events(IsHomeRmtree) # {}
              /\ ~is_dir(fs, Home)

\* C32 witness: remove_pearl with no_confirm found both packages installed,
\* removed each once and then deleted the home directory
C32_Witness ==
    /\ Done(Main)
    /\ last[Main].op = "remove_pearl"
    /\ last[Main].options.no_confirm
    /\ last[Main].exc = NoExc
    /\ Len(Removals) = 2
    /\ Cardinality(InstalledAtStart) = 2
    /\ ~is_dir(fs, Home)

====
